---------------------------- MODULE Spec2Model ----------------------------
(***************************************************************************)
(* A state-machine model of the rule workshop of ai_title_viewer           *)
(* (src/ai_title_workshop.py): the Rule collection, its compiled-matcher   *)
(* cache, first-match-wins hit evaluation, scopes, and the workspace and   *)
(* rule-pack documents; and of the materials window and the search-engine  *)
(* editor of the viewer (src/ai_title_viewer.py).                          *)
(*                                                                         *)
(* Conventions.                                                            *)
(*  - Python lists are sequences; Python index i is model index i+1.       *)
(*  - Titles and patterns are sequences of one-character strings.          *)
(*  - A JSON object is a function whose DOMAIN is the set of keys present. *)
(*  - A method of WorkshopApp is an operator from the object's state (a    *)
(*    record of all fields, plus exc: "an exception is propagating") to    *)
(*    the state it leaves.  A handler's action commits that state: Tk      *)
(*    reports an exception raised in a callback and keeps running, so the  *)
(*    assignments made before the raise stay.                              *)
(***************************************************************************)
EXTENDS Integers, Sequences, FiniteSets, TLC

VARIABLES
    phase,              \* "new": before WorkshopApp.__init__; "running"; "crashed"
    disk,               \* path -> content of the JSON file at that path
    workspace_path,
    rules_pack_path,
    workspace,          \* self.workspace: the document last loaded or saved
    genre,
    exclude_examples,
    keep_examples,
    sample_titles,
    ignore_scoped,      \* self.ignore_scoped, or NoAttr before the first load
    rules,              \* self.rules: sequence of Rule
    compiled,           \* self.compiled: sequence of matcher or None
    scope_var,          \* the combobox label of the editing scope
    tree,               \* iids of rule_tree's rows, in display order
    preview,            \* lines of the preview text
    nops,               \* how many handlers have run so far
    material_ex,        \* App.material_ex of the viewer
    material_keep,      \* App.material_keep
    ignore_words,       \* App.ignore_words, the viewer's flat list
    engines,            \* App.engines: the (name, template) entries in dict order
    engine_var,         \* App.engine_var: the name of the default engine
    lb,                 \* the names listed in the engine editor's listbox
    vops                \* how many handlers of the viewer have run so far

workshop_vars == <<phase, disk, workspace_path, rules_pack_path, workspace, genre,
                   exclude_examples, keep_examples, sample_titles, ignore_scoped,
                   rules, compiled, scope_var, tree, preview, nops>>

materials_vars == <<material_ex, material_keep, ignore_words>>

engines_vars == <<engines, engine_var, lb>>

vars == <<workshop_vars, materials_vars, engines_vars, vops>>

----------------------------------------------------------------------------
(* Bounds of the model *)

\* add_new_rule and add_heuristics are not taken beyond this many rules
MaxRules == 3

\* the sessions explored run at most this many handlers
MaxOps == 3

----------------------------------------------------------------------------
(* Program constants *)

SCOPE_TMP == "TMP"
SCOPE_GLOBAL == "__global__"
SCOPE_GENRE == "__genre__"

LABEL_TMP == "TMP(trial)"
LABEL_GLOBAL == "common(all genres)"
LABEL_GENRE == "per genre"

SCOPE_LABELS == (SCOPE_TMP :> LABEL_TMP) @@ (SCOPE_GLOBAL :> LABEL_GLOBAL)
                @@ (SCOPE_GENRE :> LABEL_GENRE)

\* update_rule_hits looks at titles[:3000]
HIT_CAP == 3000
\* refresh_preview looks at sample_titles[:400][:200], and lists errs[:20]
PREVIEW_POOL == 400
PREVIEW_LINES == 200
PREVIEW_ERRS == 20

GENRE_UNSELECTED == "unselected"
DEFAULT_RULE_NAME == "rule"
DEFAULT_SOURCE == "WORKSHOP"

\* Python's None, and a missing attribute
None == [kind |-> "None"]
NoAttr == [kind |-> "NoAttr"]

\* a Python list where None may stand instead (Rule.genres)
List(items) == [kind |-> "list", items |-> items]

\* the JSON object {}
EmptyObj == [k \in {} |-> 0]

----------------------------------------------------------------------------
(* Sequences *)

Take(s, n) == SubSeq(s, 1, IF Len(s) < n THEN Len(s) ELSE n)

Range(s) == {s[i] : i \in DOMAIN s}

RECURSIVE SumSeq(_)
SumSeq(s) == IF s = <<>> THEN 0 ELSE Head(s) + SumSeq(Tail(s))

\* s without its i-th element (list.pop(i))
RemoveAt(s, i) == SubSeq(s, 1, i - 1) \o SubSeq(s, i + 1, Len(s))

Get(d, k, default) == IF k \in DOMAIN d THEN d[k] ELSE default

----------------------------------------------------------------------------
(* The regular-expression engine (Python's re), for the patterns the model  *)
(* uses: literal characters, groups "(" ... ")", and the three patterns of  *)
(* heuristic_suggestions, each held as one token and matched as its regular *)
(* expression reads.                                                        *)

IGNORECASE == 2

Digits == {"0", "1", "2", "3"}
Separators == {" ", "_", "-"}
Openers == {"[", "("}
Closers == {"]", ")"}

\* (?i)(?:^|[ _\-])\d{1,4}(?:-\d{1,4})?$
PAT_TAIL_NUMBER == <<"<tail_number>">>
\* [\[\(...].{1,30}?[\]\)...]
PAT_BRACKET_TAG == <<"<bracket_tag>">>
\* (?i)\b(?:img|dsc|pxl|vid|mv)[ _-]?\d{3,}\b
PAT_CAMERA_PREFIX == <<"<camera_prefix>">>

HeuristicPatterns == {PAT_TAIL_NUMBER, PAT_BRACKET_TAG, PAT_CAMERA_PREFIX}

Lower(c) == CASE c = "A" -> "a" [] c = "B" -> "b" [] OTHER -> c

LowerSeq(t) == [i \in DOMAIN t |-> Lower(t[i])]

\* nesting depth after each prefix of p; -1 once a ")" closes nothing
RECURSIVE Depth(_, _)
Depth(p, d) ==
    IF p = <<>> THEN d
    ELSE IF Head(p) = "(" THEN Depth(Tail(p), d + 1)
    ELSE IF Head(p) = ")" THEN (IF d = 0 THEN -1 ELSE Depth(Tail(p), d - 1))
    ELSE Depth(Tail(p), d)

\* str(e) of the re.error that re.compile(p) raises, "" when p compiles
CompileError(p) ==
    IF p \in HeuristicPatterns THEN ""
    ELSE IF Depth(p, 0) > 0 THEN "missing ), unterminated subpattern"
    ELSE IF Depth(p, 0) < 0 THEN "unbalanced parenthesis"
    ELSE ""

\* the characters a compilable pattern of literals and groups must find
Literal(p) == SelectSeq(p, LAMBDA c : c \notin {"(", ")"})

Contains(t, w) ==
    \E i \in 0..(Len(t) - Len(w)) : SubSeq(t, i + 1, i + Len(w)) = w

AllDigits(w) == \A i \in DOMAIN w : w[i] \in Digits

\* \d{1,4}(?:-\d{1,4})? matching the whole of w
IsNumberTail(w) ==
    \/ Len(w) \in 1..4 /\ AllDigits(w)
    \/ \E k \in 2..(Len(w) - 1) :
          /\ w[k] = "-"
          /\ k - 1 \in 1..4 /\ AllDigits(SubSeq(w, 1, k - 1))
          /\ Len(w) - k \in 1..4 /\ AllDigits(SubSeq(w, k + 1, Len(w)))

TailNumberMatch(t) ==
    \E i \in 1..Len(t) :
        /\ IsNumberTail(SubSeq(t, i, Len(t)))
        /\ i = 1 \/ t[i - 1] \in Separators

BracketTagMatch(t) ==
    \E i \in 1..Len(t) : \E j \in (i + 2)..Len(t) :
        /\ t[i] \in Openers
        /\ t[j] \in Closers
        /\ j - i - 1 <= 30

\* \w: anything but the characters of the model that are not word characters
NonWordChars == {" ", "-", "[", "]", "(", ")"}

IsWord(t, i) == i \in 1..Len(t) /\ t[i] \notin NonWordChars

CameraWords == {<<"i", "m", "g">>, <<"d", "s", "c">>, <<"p", "x", "l">>,
                <<"v", "i", "d">>, <<"m", "v">>}

\* a camera word at t[i..], an optional separator, three or more digits up to
\* t[e], and a word boundary on both sides
CameraPrefixMatch(t) ==
    \E i \in 1..Len(t) : \E w \in CameraWords : \E sep \in 0..1 : \E e \in 1..Len(t) :
        LET k == i + Len(w) + sep IN
        /\ i + Len(w) - 1 <= Len(t)
        /\ LowerSeq(SubSeq(t, i, i + Len(w) - 1)) = w
        /\ sep = 1 => (k - 1 <= Len(t) /\ t[k - 1] \in Separators)
        /\ e - k + 1 >= 3
        /\ AllDigits(SubSeq(t, k, e))
        /\ ~IsWord(t, i - 1)
        /\ ~IsWord(t, e + 1)

\* re.compile(pattern, flags): a matcher; called only when CompileError is ""
Matcher(pattern, flags) == [kind |-> "re", pattern |-> pattern, flags |-> flags]

\* cre.search(t) is not None
Search(cre, t) ==
    IF cre.pattern = PAT_TAIL_NUMBER THEN TailNumberMatch(t)
    ELSE IF cre.pattern = PAT_BRACKET_TAG THEN BracketTagMatch(t)
    ELSE IF cre.pattern = PAT_CAMERA_PREFIX THEN CameraPrefixMatch(t)
    ELSE IF cre.flags = IGNORECASE
         THEN Contains(LowerSeq(t), LowerSeq(Literal(cre.pattern)))
         ELSE Contains(t, Literal(cre.pattern))

----------------------------------------------------------------------------
(* Rule *)

\* Rule(key, name, pattern, why, ...) with the dataclass's defaults; hit is
\* the _hit attribute, which reads as 0 (getattr(r, "_hit", 0)) until
\* update_rule_hits sets it
Rule(key, name, pattern, why, enabled, flags, source, error, genres) ==
    [key |-> key, name |-> name, pattern |-> pattern, why |-> why,
     enabled |-> enabled, flags |-> flags, source |-> source, error |-> error,
     genres |-> genres, scope |-> SCOPE_GLOBAL, apply_genre |-> "", hit |-> 0]

\* compile_rule compiling disabled rules as well
compile_rule_ignoring_enabled(r) ==
    IF r.pattern = <<>>
    THEN [cre |-> None, r |-> r]
    ELSE IF CompileError(r.pattern) = ""
    THEN [cre |-> Matcher(r.pattern, r.flags), r |-> r]
    ELSE [cre |-> None, r |-> [r EXCEPT !.error = CompileError(r.pattern)]]

\* compile_rule(r): the matcher or None, and r as it leaves it
compile_rule(r) ==
    IF (~r.enabled) \/ r.pattern = <<>>
    THEN [cre |-> None, r |-> r]
    ELSE IF CompileError(r.pattern) = ""
    THEN [cre |-> Matcher(r.pattern, r.flags), r |-> r]
    ELSE [cre |-> None, r |-> [r EXCEPT !.error = CompileError(r.pattern)]]

\* heuristic_suggestions(examples, ignore_words) for ignore_words = []: the
\* workshop only ever passes self.ignore_words, which stays []
heuristic_suggestions ==
    << Rule("tail_number", "tail number", PAT_TAIL_NUMBER, "why tail", TRUE, 0,
            DEFAULT_SOURCE, "", None),
       Rule("bracket_tag", "bracket tag", PAT_BRACKET_TAG, "why bracket", TRUE, 0,
            DEFAULT_SOURCE, "", None),
       Rule("camera_prefix", "camera prefix", PAT_CAMERA_PREFIX, "why camera", TRUE,
            0, DEFAULT_SOURCE, "", None) >>

----------------------------------------------------------------------------
(* The WorkshopApp object *)

\* the object's fields as one record; exc: an exception is propagating
Self ==
    [phase |-> phase, disk |-> disk, workspace_path |-> workspace_path,
     rules_pack_path |-> rules_pack_path, workspace |-> workspace, genre |-> genre,
     exclude_examples |-> exclude_examples, keep_examples |-> keep_examples,
     sample_titles |-> sample_titles, ignore_scoped |-> ignore_scoped,
     rules |-> rules, compiled |-> compiled, scope_var |-> scope_var,
     tree |-> tree, preview |-> preview, exc |-> FALSE]

\* the handler has returned, or Tk has reported its exception: s is the state
Commit(s) ==
    /\ phase' = s.phase
    /\ disk' = s.disk
    /\ workspace_path' = s.workspace_path
    /\ rules_pack_path' = s.rules_pack_path
    /\ workspace' = s.workspace
    /\ genre' = s.genre
    /\ exclude_examples' = s.exclude_examples
    /\ keep_examples' = s.keep_examples
    /\ sample_titles' = s.sample_titles
    /\ ignore_scoped' = s.ignore_scoped
    /\ rules' = s.rules
    /\ compiled' = s.compiled
    /\ scope_var' = s.scope_var
    /\ tree' = s.tree
    /\ preview' = s.preview
    /\ nops' = nops + 1
    /\ UNCHANGED <<materials_vars, engines_vars, vops>>

Raise(s) == [s EXCEPT !.exc = TRUE]

\* _scope_key_from_label
scope_key_from_label(label) ==
    IF \E k \in DOMAIN SCOPE_LABELS : SCOPE_LABELS[k] = label
    THEN CHOOSE k \in DOMAIN SCOPE_LABELS : SCOPE_LABELS[k] = label
    ELSE SCOPE_TMP

get_current_scope(s) == scope_key_from_label(s.scope_var)

\* recompile_all
recompile_all(s) ==
    LET cr(i) == compile_rule([s.rules[i] EXCEPT !.error = ""]) IN
    [s EXCEPT !.compiled = [i \in 1..Len(s.rules) |-> cr(i).cre],
              !.rules = [i \in 1..Len(s.rules) |-> cr(i).r]]

\* the inner loop of update_rule_hits and of refresh_preview for title t, from
\* rule idx on: the index of the first enabled rule whose cached matcher finds
\* t, 0 when none does, -1 when compiled[idx] raises IndexError
RECURSIVE first_match(_, _, _, _)
first_match(rs, comp, t, idx) ==
    IF idx > Len(rs) THEN 0
    ELSE IF idx > Len(comp) THEN -1
    ELSE IF (~rs[idx].enabled) \/ comp[idx] = None
         THEN first_match(rs, comp, t, idx + 1)
    ELSE IF Search(comp[idx], t) THEN idx
    ELSE first_match(rs, comp, t, idx + 1)

\* count_hits without the break: every enabled rule whose matcher finds the
\* title is counted
RECURSIVE count_hits_without_break(_, _, _)
count_hits_without_break(rs, comp, titles) ==
    IF titles = <<>> THEN [rules |-> rs, exc |-> FALSE]
    ELSE IF Len(comp) < Len(rs) THEN [rules |-> rs, exc |-> TRUE]
    ELSE count_hits_without_break(
             [i \in 1..Len(rs) |->
                 IF rs[i].enabled /\ comp[i] # None /\ Search(comp[i], Head(titles))
                 THEN [rs[i] EXCEPT !.hit = @ + 1] ELSE rs[i]],
             comp, Tail(titles))

\* the outer loop of update_rule_hits over titles: the rules with their hit
\* counters, and whether the loop raised
RECURSIVE count_hits(_, _, _)
count_hits(rs, comp, titles) ==
    IF titles = <<>> THEN [rules |-> rs, exc |-> FALSE]
    ELSE LET m == first_match(rs, comp, Head(titles), 1) IN
         IF m = -1 THEN [rules |-> rs, exc |-> TRUE]
         ELSE IF m = 0 THEN count_hits(rs, comp, Tail(titles))
         ELSE count_hits([rs EXCEPT ![m].hit = @ + 1], comp, Tail(titles))

\* update_rule_hits
update_rule_hits(s) ==
    LET zeroed == [i \in 1..Len(s.rules) |-> [s.rules[i] EXCEPT !.hit = 0]]
        res == count_hits(zeroed, s.compiled, Take(s.sample_titles, HIT_CAP))
    IN [s EXCEPT !.rules = res.rules, !.exc = res.exc]

\* visible without the comparison of apply_genre with the active genre
visible_in_any_genre(r, scope, g) ==
    LET rs == IF r.scope = "" THEN SCOPE_GLOBAL ELSE r.scope IN
    IF scope = SCOPE_TMP THEN rs = SCOPE_TMP
    ELSE IF scope = SCOPE_GENRE THEN rs = SCOPE_GENRE
    ELSE rs = SCOPE_GLOBAL

\* refresh_rule_tree.visible
visible(r, scope, g) ==
    LET rs == IF r.scope = "" THEN SCOPE_GLOBAL ELSE r.scope IN
    IF scope = SCOPE_TMP THEN rs = SCOPE_TMP
    ELSE IF scope = SCOPE_GENRE THEN rs = SCOPE_GENRE /\ r.apply_genre = g
    ELSE rs = SCOPE_GLOBAL

\* name.lower() of every rule name of the model, in Python's string order
\* (code points: ASCII, then the Japanese names of the heuristics and of
\* add_new_rule)
NAME_ORDER ==
    << "edited", "rule", "camera prefix", "bracket tag", "new rule 0", "new rule 1",
       "new rule 2", "new rule 3", "new rule 4", "new rule 5", "tail number" >>

name_lower(name) == IF name = "Edited" THEN "edited" ELSE name

name_rank(name) == CHOOSE k \in DOMAIN NAME_ORDER : NAME_ORDER[k] = name_lower(name)

\* the sort key of refresh_rule_tree: (-_hit, name.lower())
sort_before(rs, i, j) ==
    \/ rs[i].hit > rs[j].hit
    \/ rs[i].hit = rs[j].hit /\ name_rank(rs[i].name) < name_rank(rs[j].name)

\* list.sort: stable, so i goes after every entry that does not sort after it
RECURSIVE sort_insert(_, _, _)
sort_insert(rs, sorted, i) ==
    IF sorted = <<>> THEN <<i>>
    ELSE IF sort_before(rs, i, Head(sorted)) THEN <<i>> \o sorted
    ELSE <<Head(sorted)>> \o sort_insert(rs, Tail(sorted), i)

RECURSIVE sort_order(_, _)
sort_order(rs, order) ==
    IF order = <<>> THEN <<>>
    ELSE sort_insert(rs, sort_order(rs, SubSeq(order, 1, Len(order) - 1)),
                     order[Len(order)])

\* refresh_rule_tree sorting the rule list itself and listing its visible rows
refresh_rule_tree_sorting_rules(s) ==
    LET all == sort_order(s.rules, [i \in 1..Len(s.rules) |-> i])
        sorted == [k \in 1..Len(all) |-> s.rules[all[k]]]
        scope == get_current_scope(s)
        vis(i) == visible(sorted[i], scope, s.genre)
    IN [s EXCEPT !.rules = sorted,
                 !.tree = SelectSeq([i \in 1..Len(sorted) |-> i], vis)]

\* refresh_rule_tree: the rows' iids
refresh_rule_tree(s) ==
    LET scope == get_current_scope(s)
        vis(i) == visible(s.rules[i], scope, s.genre)
        order == SelectSeq([i \in 1..Len(s.rules) |-> i], vis)
    IN [s EXCEPT !.tree = sort_order(s.rules, order)]

\* the lines of the preview: t + " -> name", the [ERROR] header, "- name: error",
\* and the text shown when there are no sample titles
PreviewLine(t, name) == [kind |-> "title", title |-> t, rule |-> name, error |-> ""]
PreviewNoTitles == [kind |-> "no sample_titles", title |-> <<>>, rule |-> "", error |-> ""]
PreviewErrorHeader == [kind |-> "[ERROR]", title |-> <<>>, rule |-> "", error |-> ""]
PreviewError(r) == [kind |-> "error", title |-> <<>>, rule |-> r.name, error |-> r.error]

\* the title loop of refresh_preview
RECURSIVE preview_lines(_, _, _)
preview_lines(rs, comp, titles) ==
    IF titles = <<>> THEN [lines |-> <<>>, exc |-> FALSE]
    ELSE LET m == first_match(rs, comp, Head(titles), 1) IN
         IF m = -1 THEN [lines |-> <<>>, exc |-> TRUE]
         ELSE LET rest == preview_lines(rs, comp, Tail(titles)) IN
              [lines |-> <<PreviewLine(Head(titles), IF m = 0 THEN "" ELSE rs[m].name)>>
                           \o rest.lines,
               exc |-> rest.exc]

\* refresh_preview
refresh_preview(s) ==
    LET titles == Take(s.sample_titles, PREVIEW_POOL)
        res == preview_lines(s.rules, s.compiled, Take(titles, PREVIEW_LINES))
        errs == SelectSeq(s.rules, LAMBDA r : r.error # "")
        errlines == IF errs = <<>> THEN <<>>
                    ELSE <<PreviewErrorHeader>>
                         \o [i \in 1..Len(Take(errs, PREVIEW_ERRS)) |-> PreviewError(errs[i])]
    IN IF titles = <<>> THEN [s EXCEPT !.preview = <<PreviewNoTitles>>]
       ELSE IF res.exc THEN [s EXCEPT !.preview = <<>>, !.exc = TRUE]
       ELSE [s EXCEPT !.preview = res.lines \o errlines]

\* refresh_all; show_rule_detail only fills the edit form
refresh_all(s) ==
    LET s1 == update_rule_hits(s) IN
    IF s1.exc THEN s1
    ELSE refresh_preview(refresh_rule_tree(s1))

----------------------------------------------------------------------------
(* JSON documents and files *)

\* what a file holds: a JSON object, a JSON array, another JSON value, no
\* file at all, or text that is not JSON (a truncated document)
JDict(obj) == [kind |-> "dict", obj |-> obj]
JList(items) == [kind |-> "list", items |-> items]
JOther == [kind |-> "other"]
Missing == [kind |-> "missing"]
Garbage == [kind |-> "garbage"]

\* the outcomes of safe_save_json: written; open() raises and the file stays;
\* json.dump raises after open(path, "w") has truncated the file
IOOutcomes == {"ok", "open_fail", "dump_fail"}

\* safe_load_json
safe_load_json(s, path) ==
    IF s.disk[path].kind \in {"missing", "garbage"} THEN None ELSE s.disk[path]

\* safe_save_json(path, data) for a JSON object data
safe_save_json(s, path, data, io) ==
    IF io = "ok" THEN [s EXCEPT !.disk[path] = JDict(data)]
    ELSE IF io = "open_fail" THEN Raise(s)
    ELSE Raise([s EXCEPT !.disk[path] = Garbage])

\* rule_to_dict
rule_to_dict(r) ==
    [key |-> r.key, name |-> r.name, pattern |-> r.pattern, why |-> r.why,
     enabled |-> r.enabled, flags |-> r.flags, source |-> r.source]
    @@ (IF r.genres # None /\ r.genres.items # <<>>
        THEN [genres |-> r.genres.items] ELSE EmptyObj)
    @@ (IF r.scope # "" THEN [scope |-> r.scope] ELSE EmptyObj)
    @@ (IF r.apply_genre # "" THEN [apply_genre |-> r.apply_genre] ELSE EmptyObj)
    @@ (IF r.error # "" THEN [error |-> r.error] ELSE EmptyObj)

rules_to_json(rs) == [i \in 1..Len(rs) |-> JDict(rule_to_dict(rs[i]))]

\* str(x).strip() is not empty
NonBlank(x) == x \notin {"", " "}

\* rule_from_dict with enabled=True whatever the object says
rule_from_dict_always_enabled(it, n) ==
    Rule(IF Get(it, "key", "") = "" THEN "R_" \o ToString(n) ELSE it.key,
         IF Get(it, "name", "") = "" THEN DEFAULT_RULE_NAME ELSE it.name,
         Get(it, "pattern", <<>>),
         Get(it, "why", ""),
         TRUE,
         Get(it, "flags", 0),
         IF Get(it, "source", "") = "" THEN DEFAULT_SOURCE ELSE it.source,
         Get(it, "error", ""),
         IF "genres" \in DOMAIN it THEN List(SelectSeq(it.genres, NonBlank)) ELSE None)

\* the Rule(...) that load_workspace and load_rules_pack build from the JSON
\* object it, as the n-th rule kept (n counts from 0)
rule_from_dict(it, n) ==
    Rule(IF Get(it, "key", "") = "" THEN "R_" \o ToString(n) ELSE it.key,
         IF Get(it, "name", "") = "" THEN DEFAULT_RULE_NAME ELSE it.name,
         Get(it, "pattern", <<>>),
         Get(it, "why", ""),
         Get(it, "enabled", TRUE),
         Get(it, "flags", 0),
         IF Get(it, "source", "") = "" THEN DEFAULT_SOURCE ELSE it.source,
         Get(it, "error", ""),
         IF "genres" \in DOMAIN it THEN List(SelectSeq(it.genres, NonBlank)) ELSE None)

\* scoped_rule_from_dict without r.apply_genre = ...
scoped_rule_without_genre(it, n) ==
    [rule_from_dict(it, n) EXCEPT
        !.scope = IF Get(it, "scope", "") = "" THEN SCOPE_GLOBAL ELSE it.scope]

\* load_workspace also reads scope and apply_genre
scoped_rule_from_dict(it, n) ==
    [rule_from_dict(it, n) EXCEPT
        !.scope = IF Get(it, "scope", "") = "" THEN SCOPE_GLOBAL ELSE it.scope,
        !.apply_genre = Get(it, "apply_genre", "")]

\* the loop over rules_data: entries that are not objects are skipped
RECURSIVE rules_from_json(_, _, _)
rules_from_json(items, acc, scoped) ==
    IF items = <<>> THEN acc
    ELSE IF Head(items).kind # "dict" THEN rules_from_json(Tail(items), acc, scoped)
    ELSE rules_from_json(Tail(items),
                         Append(acc, IF scoped
                                     THEN scoped_rule_from_dict(Head(items).obj, Len(acc))
                                     ELSE rule_from_dict(Head(items).obj, Len(acc))),
                         scoped)

EnsureKey(d, k, default) == IF k \in DOMAIN d THEN d ELSE (k :> default) @@ d

\* _ensure_scoped_structures: a bucket that is missing (or is not a list, not
\* a dict) becomes empty; every rule built by the loaders has a scope
ensure_scoped_structures(s) ==
    LET d0 == IF s.ignore_scoped = NoAttr THEN EmptyObj ELSE s.ignore_scoped
        d1 == EnsureKey(d0, SCOPE_GLOBAL, <<>>)
        d2 == EnsureKey(d1, SCOPE_TMP, <<>>)
        d3 == EnsureKey(d2, SCOPE_GENRE, EmptyObj)
    IN [s EXCEPT !.ignore_scoped = d3,
                 !.rules = [i \in 1..Len(s.rules) |->
                              IF s.rules[i].scope = ""
                              THEN [s.rules[i] EXCEPT !.scope = SCOPE_GLOBAL]
                              ELSE s.rules[i]]]

\* save_workspace
save_workspace(s, io) ==
    IF s.workspace_path = "" THEN s
    ELSE IF s.ignore_scoped = NoAttr THEN Raise(s)
    ELSE LET data == [genre |-> s.genre,
                      exclude_examples |-> s.exclude_examples,
                      keep_examples |-> s.keep_examples,
                      sample_titles |-> s.sample_titles,
                      ignore_scoped |-> s.ignore_scoped,
                      ignore_words |-> Get(s.ignore_scoped, SCOPE_GLOBAL, <<>>),
                      rules |-> rules_to_json(s.rules)] @@ s.workspace
             s1 == safe_save_json(s, s.workspace_path, data, io)
         IN IF s1.exc THEN s1 ELSE [s1 EXCEPT !.workspace = data]

\* the scoped ignore words taking the legacy list first
ignore_scoped_legacy_first(d) ==
    IF "ignore_words" \in DOMAIN d
    THEN (SCOPE_GLOBAL :> d.ignore_words) @@ (SCOPE_TMP :> <<>>) @@ (SCOPE_GENRE :> EmptyObj)
    ELSE Get(d, "ignore_scoped", EmptyObj)

\* the scoped ignore words load_workspace takes from the document d
ignore_scoped_of(d) ==
    IF "ignore_scoped" \in DOMAIN d THEN d.ignore_scoped
    ELSE (SCOPE_GLOBAL :> Get(d, "ignore_words", <<>>))
         @@ (SCOPE_TMP :> <<>>) @@ (SCOPE_GENRE :> EmptyObj)

\* load_workspace taking the path before it looks at the document
load_workspace_path_first(s, path) ==
    LET data == safe_load_json(s, path) IN
    IF data.kind # "dict" THEN [s EXCEPT !.workspace_path = path]
    ELSE LET d == data.obj
             s1 == [s EXCEPT
                 !.workspace_path = path,
                 !.workspace = d,
                 !.genre = IF Get(d, "genre", "") = "" THEN GENRE_UNSELECTED ELSE d.genre,
                 !.ignore_scoped = ignore_scoped_of(d),
                 !.exclude_examples = Get(d, "exclude_examples", <<>>),
                 !.keep_examples = Get(d, "keep_examples", <<>>),
                 !.sample_titles = Get(d, "sample_titles", <<>>),
                 !.rules = rules_from_json(Get(d, "rules", <<>>), <<>>, TRUE)]
         IN refresh_all(ensure_scoped_structures(s1))

\* load_workspace
load_workspace(s, path) ==
    LET data == safe_load_json(s, path) IN
    IF data.kind # "dict" THEN s
    ELSE LET d == data.obj
             s1 == [s EXCEPT
                 !.workspace_path = path,
                 !.workspace = d,
                 !.genre = IF Get(d, "genre", "") = "" THEN GENRE_UNSELECTED ELSE d.genre,
                 !.ignore_scoped = ignore_scoped_of(d),
                 !.exclude_examples = Get(d, "exclude_examples", <<>>),
                 !.keep_examples = Get(d, "keep_examples", <<>>),
                 !.sample_titles = Get(d, "sample_titles", <<>>),
                 !.rules = rules_from_json(Get(d, "rules", <<>>), <<>>, TRUE)]
         IN refresh_all(ensure_scoped_structures(s1))

\* load_rules_pack reading only the document that wraps its rules
load_wrapped_rules_pack(s, path) ==
    LET data == safe_load_json(s, path) IN
    IF data = None THEN s
    ELSE LET rules_data == IF data.kind = "dict" THEN Get(data.obj, "rules", <<>>)
                           ELSE <<>>
             s1 == [s EXCEPT !.rules_pack_path = path,
                             !.rules = rules_from_json(rules_data, <<>>, FALSE)]
         IN refresh_all(recompile_all(s1))

\* load_rules_pack
load_rules_pack(s, path) ==
    LET data == safe_load_json(s, path) IN
    IF data = None THEN s
    ELSE LET rules_data == IF data.kind = "dict" THEN Get(data.obj, "rules", <<>>)
                           ELSE IF data.kind = "list" THEN data.items
                           ELSE <<>>
             s1 == [s EXCEPT !.rules_pack_path = path,
                             !.rules = rules_from_json(rules_data, <<>>, FALSE)]
         IN refresh_all(recompile_all(s1))

----------------------------------------------------------------------------
(* The handlers.  sel is the iid of the selected row of rule_tree, 0 when   *)
(* no row is selected: the user may select any row, or none, before a       *)
(* click; selecting only fills the edit form.                               *)

NoSel == 0

\* self.rules[i] raises IndexError
BadIndex(s, i) == i < 1 \/ i > Len(s.rules)

\* add_heuristics
add_heuristics(s) ==
    LET existing == {s.rules[i].key : i \in 1..Len(s.rules)}
        fresh == SelectSeq(heuristic_suggestions, LAMBDA r : r.key \notin existing)
    IN refresh_all(recompile_all([s EXCEPT !.rules = s.rules \o fresh]))

\* add_new_rule
add_new_rule(s, io) ==
    LET n == Len(s.rules)
        r == Rule("custom_" \o ToString(n), "new rule " \o ToString(n), <<>>, "",
                  TRUE, 0, DEFAULT_SOURCE, "", None)
        s1 == recompile_all([s EXCEPT !.rules = Append(s.rules, r)])
        sc == get_current_scope(s1)
        s2 == [s1 EXCEPT !.rules[n + 1].scope = sc,
                         !.rules[n + 1].apply_genre =
                             IF sc = SCOPE_GENRE THEN s.genre ELSE ""]
        s3 == save_workspace(s2, io)
    IN IF s3.exc THEN s3 ELSE refresh_all(s3)

\* delete_selected_rule; yes: the answer to the confirmation
delete_selected_rule(s, sel, yes) ==
    IF sel = NoSel \/ ~yes THEN s
    ELSE IF BadIndex(s, sel) THEN Raise(s)
    ELSE refresh_all(recompile_all([s EXCEPT !.rules = RemoveAt(s.rules, sel)]))

\* toggle_selected_rule
toggle_selected_rule(s, sel) ==
    IF sel = NoSel THEN s
    ELSE IF BadIndex(s, sel) THEN Raise(s)
    ELSE refresh_all(recompile_all(
             [s EXCEPT !.rules[sel].enabled = ~s.rules[sel].enabled]))

\* apply_rule_edit giving up the whole edit when int() rejects the flags text
apply_rule_edit_all_or_nothing(s, sel, form) ==
    IF sel = NoSel THEN s
    ELSE IF BadIndex(s, sel) THEN Raise(s)
    ELSE IF form.flags \notin {"", "0", "2"} THEN s
    ELSE LET gs == SelectSeq(form.genres, NonBlank)
             flags == IF form.flags = "2" THEN 2 ELSE 0
         IN refresh_all(recompile_all(
                [s EXCEPT !.rules[sel].name = IF form.name = "" THEN @ ELSE form.name,
                          !.rules[sel].why = form.why,
                          !.rules[sel].genres = IF gs # <<>> THEN List(gs) ELSE None,
                          !.rules[sel].flags = flags,
                          !.rules[sel].pattern = form.pattern]))

\* apply_rule_edit; form: the edit form's fields as the user left them.
\* form.genres is the text split at ",", form.flags the text of the flags
\* entry ("x" stands for every text that int() rejects)
apply_rule_edit(s, sel, form) ==
    IF sel = NoSel THEN s
    ELSE IF BadIndex(s, sel) THEN Raise(s)
    ELSE LET gs == SelectSeq(form.genres, NonBlank)
             flags == CASE form.flags = "" -> 0
                        [] form.flags = "0" -> 0
                        [] form.flags = "2" -> 2
                        [] OTHER -> 0
         IN refresh_all(recompile_all(
                [s EXCEPT !.rules[sel].name = IF form.name = "" THEN @ ELSE form.name,
                          !.rules[sel].why = form.why,
                          !.rules[sel].genres = IF gs # <<>> THEN List(gs) ELSE None,
                          !.rules[sel].flags = flags,
                          !.rules[sel].pattern = form.pattern]))

\* promote_selected_rule_to_global without r.apply_genre = ""
promote_to_global_keeping_genre(s, sel, io) ==
    IF sel = NoSel THEN s
    ELSE IF BadIndex(s, sel) THEN Raise(s)
    ELSE LET s1 == save_workspace([s EXCEPT !.rules[sel].scope = SCOPE_GLOBAL], io)
         IN IF s1.exc THEN s1 ELSE refresh_rule_tree(s1)

\* promote_selected_rule_to_global
promote_selected_rule_to_global(s, sel, io) ==
    IF sel = NoSel THEN s
    ELSE IF BadIndex(s, sel) THEN Raise(s)
    ELSE LET s1 == save_workspace([s EXCEPT !.rules[sel].scope = SCOPE_GLOBAL,
                                            !.rules[sel].apply_genre = ""], io)
         IN IF s1.exc THEN s1 ELSE refresh_rule_tree(s1)

\* promote_selected_rule_to_genre as a switch: a rule that is already of the
\* active genre goes back to GLOBAL
promote_to_genre_as_switch(s, sel, io) ==
    IF sel = NoSel THEN s
    ELSE IF BadIndex(s, sel) THEN Raise(s)
    ELSE LET back == s.rules[sel].scope = SCOPE_GENRE /\ s.rules[sel].apply_genre = s.genre
             s1 == save_workspace(
                       [s EXCEPT !.rules[sel].scope = IF back THEN SCOPE_GLOBAL
                                                      ELSE SCOPE_GENRE,
                                 !.rules[sel].apply_genre = IF back THEN "" ELSE s.genre],
                       io)
         IN IF s1.exc THEN s1 ELSE refresh_rule_tree(s1)

\* promote_selected_rule_to_genre
promote_selected_rule_to_genre(s, sel, io) ==
    IF sel = NoSel THEN s
    ELSE IF BadIndex(s, sel) THEN Raise(s)
    ELSE LET s1 == save_workspace([s EXCEPT !.rules[sel].scope = SCOPE_GENRE,
                                            !.rules[sel].apply_genre = s.genre], io)
         IN IF s1.exc THEN s1 ELSE refresh_rule_tree(s1)

\* the list comprehension of clear_tmp_scope keeping r.scope == SCOPE_GLOBAL
global_rules_only(rs) == SelectSeq(rs, LAMBDA r : r.scope = SCOPE_GLOBAL)

\* the list comprehension of clear_tmp_scope
non_tmp_rules(rs) == SelectSeq(rs, LAMBDA r : r.scope # SCOPE_TMP)

\* clear_tmp_scope without self.ignore_scoped[SCOPE_TMP] = []
clear_tmp_rules_only(s, yes, io) ==
    IF ~yes THEN s
    ELSE LET s1 == [s EXCEPT !.rules = non_tmp_rules(s.rules)] IN
         IF s1.ignore_scoped = NoAttr THEN Raise(s1)
         ELSE LET s2 == save_workspace(s1, io)
              IN IF s2.exc THEN s2 ELSE refresh_rule_tree(s2)

\* clear_tmp_scope; yes: the answer to the confirmation.  refresh_ignore_list
\* only fills a listbox
clear_tmp_scope(s, yes, io) ==
    IF ~yes THEN s
    ELSE LET s1 == [s EXCEPT !.rules = non_tmp_rules(s.rules)] IN
         IF s1.ignore_scoped = NoAttr THEN Raise(s1)
         ELSE LET s2 == save_workspace(
                            [s1 EXCEPT !.ignore_scoped[SCOPE_TMP] = <<>>], io)
              IN IF s2.exc THEN s2 ELSE refresh_rule_tree(s2)

\* the combobox takes label, then on_scope_changed; refresh_ignore_list and
\* update_meta only fill widgets
on_scope_changed(s, label) ==
    refresh_rule_tree([s EXCEPT !.scope_var = label])

\* export_rules_pack writing the sample titles into the pack as well
export_rules_pack_with_titles(s, path, now, io) ==
    IF path = "" THEN s
    ELSE LET data == [meta |-> [name |-> "workshop_v27", generated_at |-> now],
                      rules |-> rules_to_json(s.rules),
                      sample_titles |-> s.sample_titles]
             s1 == safe_save_json(s, path, data, io)
         IN IF s1.exc THEN [s1 EXCEPT !.exc = FALSE]
            ELSE [s1 EXCEPT !.rules_pack_path = path]

\* export_rules_pack; path: the answer of the save dialog, "" when cancelled;
\* now: time_string().  A failed write is caught and reported
export_rules_pack(s, path, now, io) ==
    IF path = "" THEN s
    ELSE LET data == [meta |-> [name |-> "workshop_v27", generated_at |-> now],
                      rules |-> rules_to_json(s.rules)]
             s1 == safe_save_json(s, path, data, io)
         IN IF s1.exc THEN [s1 EXCEPT !.exc = FALSE]
            ELSE [s1 EXCEPT !.rules_pack_path = path]

\* ensure_workspace_file
DefaultWorkspace ==
    [genre |-> "(none)", exclude_examples |-> <<>>, keep_examples |-> <<>>,
     sample_titles |-> <<>>,
     ignore_scoped |-> (SCOPE_GLOBAL :> <<>>) @@ (SCOPE_TMP :> <<>>)
                       @@ (SCOPE_GENRE :> EmptyObj),
     rules |-> <<>>]

ensure_workspace_file(s, path) ==
    IF s.disk[path].kind # "missing" THEN s
    ELSE [s EXCEPT !.disk[path] = JDict(DefaultWorkspace)]

\* WorkshopApp.__init__ after the fields are set and the widgets built; an
\* exception leaves no window
init_workshop(s) ==
    LET s1 == load_workspace(s, s.workspace_path) IN
    IF s1.exc THEN [s1 EXCEPT !.phase = "crashed"]
    ELSE LET s2 == load_rules_pack(s1, s1.rules_pack_path) IN
         IF s2.exc THEN [s2 EXCEPT !.phase = "crashed"]
         ELSE IF s2.rules # <<>> THEN [s2 EXCEPT !.phase = "running"]
         ELSE LET s3 == refresh_all(recompile_all(
                            [s2 EXCEPT !.rules = heuristic_suggestions]))
              IN [s3 EXCEPT !.phase = IF s3.exc THEN "crashed" ELSE "running"]

\* open_workshop_window
open_workshop_window(s) == init_workshop(ensure_workspace_file(s, s.workspace_path))

----------------------------------------------------------------------------
(* The inputs of the model: files, titles, patterns, edits *)

WORKSPACE_JSON == "workspace.json"
RULES_PACK_JSON == "rules_pack.json"
OTHER_JSON == "other.json"

Scoped(g, t, m) == (SCOPE_GLOBAL :> g) @@ (SCOPE_TMP :> t) @@ (SCOPE_GENRE :> m)

\* a workspace with sample titles and ignore words, and no rules yet; its
\* legacy ignore_words is not the GLOBAL bucket
SampleDoc ==
    [genre |-> "Comics",
     exclude_examples |-> << <<"a", " ", "1">> >>,
     keep_examples |-> << <<"b">> >>,
     sample_titles |-> << <<"a", "b">>, <<"b", "a">>, <<"1">> >>,
     ignore_scoped |-> Scoped(<<"gw">>, <<"tw">>, [g \in {"Comics"} |-> <<"cw">>]),
     ignore_words |-> <<"lw">>,
     rules |-> <<>>]

\* the same workspace as the workshop saves it with a rule of each scope
SavedDoc ==
    [SampleDoc EXCEPT !.ignore_words = <<"gw">>, !.rules =
        << JDict([key |-> "custom_0", name |-> "new rule 0", pattern |-> <<"(", "a">>,
                  why |-> "", enabled |-> TRUE, flags |-> 0, source |-> DEFAULT_SOURCE,
                  scope |-> SCOPE_TMP,
                  error |-> "missing ), unterminated subpattern"]),
           JDict([key |-> "custom_1", name |-> "new rule 1", pattern |-> <<"b">>,
                  why |-> "", enabled |-> TRUE, flags |-> 0, source |-> DEFAULT_SOURCE,
                  genres |-> <<"g1">>, scope |-> SCOPE_GLOBAL]),
           JDict([key |-> "custom_2", name |-> "new rule 2", pattern |-> <<"a">>,
                  why |-> "", enabled |-> TRUE, flags |-> 0, source |-> DEFAULT_SOURCE,
                  scope |-> SCOPE_GENRE, apply_genre |-> "Comics"]) >>]

\* a workspace without sample titles, saved after two add_new_rule and an edit
TwoTmpDoc ==
    [genre |-> "Comics",
     exclude_examples |-> <<>>,
     keep_examples |-> <<>>,
     sample_titles |-> <<>>,
     ignore_scoped |-> Scoped(<<>>, <<"tw">>, EmptyObj),
     ignore_words |-> <<>>,
     rules |-> << JDict([key |-> "custom_0", name |-> "new rule 0", pattern |-> <<"a">>,
                         why |-> "", enabled |-> TRUE, flags |-> 0,
                         source |-> DEFAULT_SOURCE, scope |-> SCOPE_TMP]),
                  JDict([key |-> "custom_1", name |-> "new rule 1", pattern |-> <<>>,
                         why |-> "", enabled |-> TRUE, flags |-> 0,
                         source |-> DEFAULT_SOURCE, scope |-> SCOPE_TMP]) >>]

\* a workspace written by hand: the flat legacy ignore_words with an entry
\* that is only a space, an entry of
\* rules that is not an object, a rule of the active genre and one of another
\* genre whose pattern was corrected and whose stored error was left in, a rule
\* that names a genre and no scope
HandDoc ==
    [genre |-> "Novels",
     sample_titles |-> << <<"a">> >>,
     ignore_words |-> <<"lw", " ">>,
     rules |-> << JDict([key |-> "h_comics", pattern |-> <<"a">>, scope |-> SCOPE_GENRE,
                         apply_genre |-> "Comics"]),
                  JOther,
                  JDict([key |-> "h_novels", pattern |-> <<"b">>, scope |-> SCOPE_GENRE,
                         apply_genre |-> "Novels",
                         error |-> "missing ), unterminated subpattern"]),
                  JDict([key |-> "h_global", name |-> "Edited", enabled |-> FALSE,
                         apply_genre |-> "Novels"]) >>]

\* the entries of a rule pack, one of them not an object
PackRules ==
    << JDict([key |-> "p_a", name |-> "rule", pattern |-> <<"a">>, why |-> "",
              enabled |-> TRUE, flags |-> 0, source |-> DEFAULT_SOURCE]),
       JOther,
       JDict([key |-> "p_b", name |-> "Edited", pattern |-> <<"b">>, why |-> "w",
              enabled |-> TRUE, flags |-> 0, source |-> DEFAULT_SOURCE]) >>

PackDoc == [meta |-> [name |-> "workshop_v27", generated_at |-> "t0"],
            rules |-> PackRules]

Disk(w, p, o) == (WORKSPACE_JSON :> w) @@ (RULES_PACK_JSON :> p) @@ (OTHER_JSON :> o)

\* the files the workshop may find when it is first opened
InitDisks ==
    { Disk(Missing, Missing, JDict(SavedDoc)),
      Disk(JDict(SampleDoc), JDict(PackDoc), JDict(HandDoc)),
      Disk(JDict(TwoTmpDoc), Garbage, JDict(SampleDoc)),
      Disk(Garbage, JList(PackRules), JDict(SampleDoc)),
      Disk(JDict(SavedDoc), Missing, Missing) }

\* the files the user picks in the dialogs of pick_workspace, pick_rules_pack
\* and export_rules_pack ("": the dialog is cancelled)
WorkspacePicks == {WORKSPACE_JSON, OTHER_JSON}
PackPicks == {RULES_PACK_JSON}
ExportPicks == {RULES_PACK_JSON, ""}

\* what the user may leave in the edit form
EditForms ==
    { [name |-> "", why |-> "", genres |-> <<>>, flags |-> "2", pattern |-> <<"a">>],
      [name |-> "", why |-> "", genres |-> <<>>, flags |-> "0", pattern |-> <<"(", "a">>],
      [name |-> "Edited", why |-> "w", genres |-> <<"g1", " ">>, flags |-> "x",
       pattern |-> <<"b">>] }

Labels == {LABEL_TMP, LABEL_GLOBAL, LABEL_GENRE}

\* the rows the user may have selected
Selections == Range(tree) \cup {NoSel}

----------------------------------------------------------------------------
(* The viewer (src/ai_title_viewer.py).  A method of App, MaterialsWindow   *)
(* or EngineEditor is an operator from the state of the App object (a       *)
(* record of the fields modelled, plus exc) to the state it leaves.  Texts  *)
(* the user types are sequences of one-character strings.                   *)

\* the sessions of the materials window explored run at most this many
\* handlers, those of the engine editor this many
MaxMaterialsOps == 4
MaxEngineOps == 3

Viewer == [material_ex |-> material_ex, material_keep |-> material_keep,
           ignore_words |-> ignore_words, engines |-> engines,
           engine_var |-> engine_var, lb |-> lb, exc |-> FALSE]

\* the handler has returned, or Tk has reported its exception: a is the state
CommitViewer(a) ==
    /\ material_ex' = a.material_ex
    /\ material_keep' = a.material_keep
    /\ ignore_words' = a.ignore_words
    /\ engines' = a.engines
    /\ engine_var' = a.engine_var
    /\ lb' = a.lb
    /\ vops' = vops + 1
    /\ UNCHANGED workshop_vars

\* str.strip()
RECURSIVE lstrip(_)
lstrip(x) == IF x # <<>> /\ Head(x) = " " THEN lstrip(Tail(x)) ELSE x

RECURSIVE rstrip(_)
rstrip(x) ==
    IF x # <<>> /\ x[Len(x)] = " " THEN rstrip(SubSeq(x, 1, Len(x) - 1)) ELSE x

strip(x) == rstrip(lstrip(x))

\* re.split(r"\s+", x), cur being the piece read so far: the pieces between
\* the runs of whitespace, an empty piece before a leading and after a
\* trailing run
RECURSIVE re_split_ws(_, _)
re_split_ws(x, cur) ==
    IF x = <<>> THEN <<cur>>
    ELSE IF Head(x) = " " THEN <<cur>> \o re_split_ws(lstrip(x), <<>>)
    ELSE re_split_ws(Tail(x), Append(cur, Head(x)))

\* [x.strip() for x in xs if x.strip()]
stripped_nonempty(xs) ==
    SelectSeq([i \in 1..Len(xs) |-> strip(xs[i])], LAMBDA x : x # <<>>)

\* the loop of _add_ignore_tokens: a token is appended unless it is listed
RECURSIVE append_unlisted(_, _)
append_unlisted(words, tokens) ==
    IF tokens = <<>> THEN words
    ELSE append_unlisted(IF Head(tokens) \in Range(words) THEN words
                         ELSE Append(words, Head(tokens)),
                         Tail(tokens))

\* _add_ignore_tokens; the count it returns only decides on refresh_counts
add_ignore_tokens(a, text) ==
    LET t == strip(text) IN
    IF t = <<>> THEN a
    ELSE [a EXCEPT !.ignore_words =
              append_unlisted(@, stripped_nonempty(re_split_ws(t, <<>>)))]

\* add_selected_word_to_ignore; sel: the text selected in pick_text
add_selected_word_to_ignore(a, sel) ==
    IF strip(sel) = <<>> THEN a ELSE add_ignore_tokens(a, strip(sel))

\* add_full_text_to_ignore; text: the content of pick_text
add_full_text_to_ignore(a, text) ==
    IF strip(text) = <<>> THEN a ELSE add_ignore_tokens(a, strip(text))

\* open_ignore_editor.on_save; raw: the lines of the editor's text
on_save(a, raw) == [a EXCEPT !.ignore_words = stripped_nonempty(raw)]

\* App.rows: title_raw of the rows loaded, two of them with the same title
ROWS == <<"t1", "t2", "t1">>

\* selected_rows: the titles of the rows selected, in the tree's order
selected_rows(sel) == [i \in 1..Len(sel) |-> ROWS[sel[i]]]

\* list.remove(t)
RECURSIVE remove_first(_, _)
remove_first(xs, t) ==
    IF xs = <<>> THEN xs
    ELSE IF Head(xs) = t THEN Tail(xs)
    ELSE <<Head(xs)>> \o remove_first(Tail(xs), t)

\* the loop of add_to_ex without the removal from the other list
RECURSIVE add_titles_only(_, _, _)
add_titles_only(into, outof, titles) ==
    IF titles = <<>> THEN [into |-> into, outof |-> outof]
    ELSE LET t == Head(titles) IN
         add_titles_only(IF t \in Range(into) THEN into ELSE Append(into, t),
                         outof, Tail(titles))

\* the loop of add_to_ex and add_to_keep over the titles selected
RECURSIVE move_titles(_, _, _)
move_titles(into, outof, titles) ==
    IF titles = <<>> THEN [into |-> into, outof |-> outof]
    ELSE LET t == Head(titles) IN
         move_titles(IF t \in Range(into) THEN into ELSE Append(into, t),
                     IF t \in Range(outof) THEN remove_first(outof, t) ELSE outof,
                     Tail(titles))

\* add_to_ex; sel: the rows selected in the left tree
add_to_ex(a, sel) ==
    IF sel = <<>> THEN a
    ELSE LET m == move_titles(a.material_ex, a.material_keep, selected_rows(sel))
         IN [a EXCEPT !.material_ex = m.into, !.material_keep = m.outof]

\* add_to_keep
add_to_keep(a, sel) ==
    IF sel = <<>> THEN a
    ELSE LET m == move_titles(a.material_keep, a.material_ex, selected_rows(sel))
         IN [a EXCEPT !.material_keep = m.into, !.material_ex = m.outof]

\* delete_selected(lb, backing); idx: the listbox row selected (from 1), 0 for
\* none; backing.pop(idx) of a row that is not there is caught
delete_selected(a, list, idx) ==
    IF idx = 0 THEN a
    ELSE IF list = "ex"
         THEN IF idx > Len(a.material_ex) THEN a
              ELSE [a EXCEPT !.material_ex = RemoveAt(@, idx)]
         ELSE IF idx > Len(a.material_keep) THEN a
              ELSE [a EXCEPT !.material_keep = RemoveAt(@, idx)]

\* clear_materials; yes: the answer to the confirmation
clear_materials(a, yes) ==
    IF ~yes THEN a ELSE [a EXCEPT !.material_ex = <<>>, !.material_keep = <<>>]

----------------------------------------------------------------------------
(* The viewer: the search-engine editor.  App.engines is a dict, held as    *)
(* the sequence of its (name, template) entries in insertion order.  A      *)
(* name or template is a text; a run of characters the program never looks  *)
(* into is held as one element, so that " ", "%", "{" and "}" are elements   *)
(* of their own.  "%" stands for a percent sign that configparser's         *)
(* interpolation rejects (one not followed by "%" or "(").                  *)

Engine(name, tpl) == [name |-> name, tpl |-> tpl]

DEFAULT_ENGINES ==
    << Engine(<<"Perplexity">>, <<"https://www.perplexity.ai/search?q=", "{", "}">>),
       Engine(<<"ChatGPT">>, <<"https://chatgpt.com/?q=", "{", "}">>),
       Engine(<<"Google">>, <<"https://www.google.com/search?q=", "{", "}">>),
       Engine(<<"YouTube">>, <<"https://www.youtube.com/results?search_query=", "{", "}">>),
       Engine(<<"Wikipedia">>, <<"https://ja.wikipedia.org/w/index.php?search=", "{", "}">>) >>

\* the fallback of cfg.get("app", "default_engine")
DEFAULT_ENGINE == <<"Perplexity">>

\* engine_names
engine_names(a) == [i \in 1..Len(a.engines) |-> a.engines[i].name]

\* the position of name in the dict, 0 when it is not a key
engine_index(a, name) ==
    IF \E i \in 1..Len(a.engines) : a.engines[i].name = name
    THEN CHOOSE i \in 1..Len(a.engines) : a.engines[i].name = name
    ELSE 0

\* tpl.count("{}"): the occurrences of "{}" that do not overlap
RECURSIVE count_placeholders(_)
count_placeholders(tpl) ==
    IF Len(tpl) < 2 THEN 0
    ELSE IF tpl[1] = "{" /\ tpl[2] = "}"
         THEN 1 + count_placeholders(SubSeq(tpl, 3, Len(tpl)))
         ELSE count_placeholders(Tail(tpl))

\* str.lower() of the elements the model uses: configparser's optionxform
lower(x) ==
    [i \in 1..Len(x) |->
        CASE x[i] = "Perplexity" -> "perplexity"
          [] x[i] = "ChatGPT" -> "chatgpt"
          [] x[i] = "Google" -> "google"
          [] x[i] = "YouTube" -> "youtube"
          [] x[i] = "Wikipedia" -> "wikipedia"
          [] x[i] = "Duck" -> "duck"
          [] OTHER -> x[i]]

\* BasicInterpolation.before_set raises ValueError for the value x
bad_interpolation(x) == "%" \in Range(x)

\* persist_engines, as far as the App object is concerned: the ini kept in
\* self.cfg is not among the fields modelled.  cfg["engines"] = {...} raises
\* DuplicateOptionError for two names equal but for case and ValueError for
\* a template that does not interpolate; cfg["app"]["default_engine"] = ...
\* raises ValueError likewise; save_config swallows what open or write raise
persist_engines(a) ==
    IF \/ \E i, j \in 1..Len(a.engines) :
              i # j /\ lower(a.engines[i].name) = lower(a.engines[j].name)
       \/ \E i \in 1..Len(a.engines) : bad_interpolation(a.engines[i].tpl)
       \/ bad_interpolation(a.engine_var)
    THEN Raise(a)
    ELSE a

\* rebuild_engine_ui: the menus rebuilt hold the names and nothing else
rebuild_engine_ui(a) ==
    LET names == engine_names(a)
        a1 == IF a.engine_var \notin Range(names) /\ names # <<>>
              THEN [a EXCEPT !.engine_var = names[1]]
              ELSE a
    IN persist_engines(a1)

\* EngineEditor.refresh
refresh(a) == [a EXCEPT !.lb = engine_names(a)]

\* what simpledialog.askstring returns: None on Cancel, the text on OK
Typed(x) == [kind |-> "str", text |-> x]

\* the tail of add_engine, edit_engine, delete_engine and reset_defaults
persist_rebuild_refresh(a) ==
    LET a1 == persist_engines(a) IN
    IF a1.exc THEN a1
    ELSE LET a2 == rebuild_engine_ui(a1) IN
         IF a2.exc THEN a2 ELSE refresh(a2)

\* _ask_name_tpl: None, or the (name, template) pair accepted
ask_name_tpl(name_answer, tpl_answer) ==
    IF name_answer = None THEN None
    ELSE IF strip(name_answer.text) = <<>> THEN None
    ELSE IF tpl_answer = None THEN None
    ELSE IF count_placeholders(strip(tpl_answer.text)) # 1 THEN None
    ELSE [kind |-> "pair", name |-> strip(name_answer.text),
          tpl |-> strip(tpl_answer.text)]

\* add_engine
add_engine(a, name_answer, tpl_answer) ==
    LET res == ask_name_tpl(name_answer, tpl_answer) IN
    IF res = None THEN a
    ELSE IF engine_index(a, res.name) # 0 THEN a
    ELSE persist_rebuild_refresh(
             [a EXCEPT !.engines = Append(@, Engine(res.name, res.tpl))])

\* edit_engine; sel: the row of the listbox selected (from 1), 0 for none.
\* del self.app.engines[old] raises KeyError when the listbox is out of date
edit_engine(a, sel, name_answer, tpl_answer) ==
    IF sel = 0 THEN a
    ELSE LET old == a.lb[sel]
             res == ask_name_tpl(name_answer, tpl_answer)
         IN IF res = None THEN a
            ELSE IF res.name # old /\ engine_index(a, res.name) # 0 THEN a
            ELSE IF engine_index(a, old) = 0 THEN Raise(a)
            ELSE persist_rebuild_refresh(
                     [a EXCEPT !.engines = Append(RemoveAt(@, engine_index(a, old)),
                                                  Engine(res.name, res.tpl)),
                               !.engine_var = IF @ = old THEN res.name ELSE @])

\* delete_engine; yes: the answer to the confirmation
delete_engine(a, sel, yes) ==
    IF sel = 0 THEN a
    ELSE LET name == a.lb[sel] IN
         IF Len(a.engines) <= 1 THEN a
         ELSE IF ~yes THEN a
         ELSE IF engine_index(a, name) = 0 THEN Raise(a)
         ELSE LET left == RemoveAt(a.engines, engine_index(a, name)) IN
              persist_rebuild_refresh(
                  [a EXCEPT !.engines = left,
                            !.engine_var = IF @ = name THEN left[1].name ELSE @])

\* reset_defaults
reset_defaults(a, yes) ==
    IF ~yes THEN a
    ELSE persist_rebuild_refresh([a EXCEPT !.engines = DEFAULT_ENGINES])

----------------------------------------------------------------------------
(* The state machine *)

\* before WorkshopApp.__init__, the files being d
WorkshopInit(d) ==
    /\ phase = "new"
    /\ disk = d
    /\ workspace_path = WORKSPACE_JSON
    /\ rules_pack_path = RULES_PACK_JSON
    /\ workspace = EmptyObj
    /\ genre = GENRE_UNSELECTED
    /\ exclude_examples = <<>>
    /\ keep_examples = <<>>
    /\ sample_titles = <<>>
    /\ ignore_scoped = NoAttr
    /\ rules = <<>>
    /\ compiled = <<>>
    /\ scope_var = LABEL_TMP
    /\ tree = <<>>
    /\ preview = <<>>
    /\ nops = 0

\* the viewer just started and left alone
ViewerIdle ==
    /\ material_ex = <<>>
    /\ material_keep = <<>>
    /\ ignore_words = <<>>
    /\ engines = DEFAULT_ENGINES
    /\ engine_var = DEFAULT_ENGINE
    /\ lb = <<>>
    /\ vops = 0

Init == (\E d \in InitDisks : WorkshopInit(d)) /\ ViewerIdle

\* the window is closed (on_close) and the workshop started again: a new
\* object over the same files
Fresh(s) ==
    [s EXCEPT !.phase = "new",
              !.workspace_path = WORKSPACE_JSON,
              !.rules_pack_path = RULES_PACK_JSON,
              !.workspace = EmptyObj,
              !.genre = GENRE_UNSELECTED,
              !.exclude_examples = <<>>,
              !.keep_examples = <<>>,
              !.sample_titles = <<>>,
              !.ignore_scoped = NoAttr,
              !.rules = <<>>,
              !.compiled = <<>>,
              !.scope_var = LABEL_TMP,
              !.tree = <<>>,
              !.preview = <<>>]

Running == phase = "running" /\ nops < MaxOps

CloseWorkshop ==
    /\ Running
    /\ Commit(Fresh(Self))

OpenWorkshop ==
    /\ phase = "new"
    /\ Commit(open_workshop_window(Self))

PickWorkspace ==
    /\ Running
    /\ \E p \in WorkspacePicks : Commit(load_workspace(Self, p))

PickRulesPack ==
    /\ Running
    /\ \E p \in PackPicks : Commit(load_rules_pack(Self, p))

ExportRulesPack ==
    /\ Running
    /\ \E p \in ExportPicks : \E io \in IOOutcomes :
          Commit(export_rules_pack(Self, p, "t1", io))

AddHeuristics ==
    /\ Running
    /\ Len(add_heuristics(Self).rules) <= MaxRules
    /\ Commit(add_heuristics(Self))

AddNewRule ==
    /\ Running
    /\ Len(rules) < MaxRules
    /\ \E io \in IOOutcomes : Commit(add_new_rule(Self, io))

DeleteSelectedRule ==
    /\ Running
    /\ \E sel \in Selections : \E yes \in BOOLEAN :
          Commit(delete_selected_rule(Self, sel, yes))

ToggleSelectedRule ==
    /\ Running
    /\ \E sel \in Selections : Commit(toggle_selected_rule(Self, sel))

ApplyRuleEdit ==
    /\ Running
    /\ \E sel \in Selections : \E form \in EditForms :
          Commit(apply_rule_edit(Self, sel, form))

PromoteToGlobal ==
    /\ Running
    /\ \E sel \in Selections : \E io \in IOOutcomes :
          Commit(promote_selected_rule_to_global(Self, sel, io))

PromoteToGenre ==
    /\ Running
    /\ \E sel \in Selections : \E io \in IOOutcomes :
          Commit(promote_selected_rule_to_genre(Self, sel, io))

ClearTmpScope ==
    /\ Running
    /\ \E yes \in BOOLEAN : \E io \in IOOutcomes :
          Commit(clear_tmp_scope(Self, yes, io))

ScopeChanged ==
    /\ Running
    /\ \E label \in Labels : Commit(on_scope_changed(Self, label))

RefreshAllMenu ==
    /\ Running
    /\ Commit(refresh_all(Self))

Next ==
    \/ OpenWorkshop
    \/ CloseWorkshop
    \/ PickWorkspace
    \/ PickRulesPack
    \/ ExportRulesPack
    \/ AddHeuristics
    \/ AddNewRule
    \/ DeleteSelectedRule
    \/ ToggleSelectedRule
    \/ ApplyRuleEdit
    \/ PromoteToGlobal
    \/ PromoteToGenre
    \/ ClearTmpScope
    \/ ScopeChanged
    \/ RefreshAllMenu

Spec == Init /\ [][Next]_vars

----------------------------------------------------------------------------
(* The viewer's state machines: the materials window and the engine editor, *)
(* each on its own, the workshop not opened.                                *)

\* the texts pick_text may show, and the selections within them
PickTexts ==
    { <<>>, <<" ">>, <<"a">>, <<"b">>, <<" ", "a", " ", " ", "b", " ">> }

\* what the user may leave in the ignore-word editor, line by line
EditorTexts ==
    { <<>>,
      << <<"a">>, <<>>, <<" ">>, <<" ", "b", " ">> >>,
      << <<"b">> >>,
      << <<"a", " ", "b">> >> }

\* the rows the user may have selected in the left tree, in the tree's order
RowSelections ==
    { <<>>, <<1>>, <<2>>, <<3>>, <<1, 2>>, <<1, 3>>, <<2, 3>>, <<1, 2, 3>> }

\* the answers to the two questions of _ask_name_tpl
NameAnswers ==
    { None, Typed(<<" ">>), Typed(<<"Google">>), Typed(<<"google">>),
      Typed(<<" ", "Duck", " ">>), Typed(<<"50", "%">>) }

TplAnswers ==
    { None, Typed(<<"https://duckduckgo.com/?q=", "{", "}">>),
      Typed(<<" ", "https://e/?q=", "{", "}", "&l=", "%", "20", " ">>),
      Typed(<<"https://duckduckgo.com/">>),
      Typed(<<"{", "}", "{", "}">>) }

\* App.__init__ of the viewer, its ini holding no engines yet, and the engine
\* editor opened on it
ViewerInit ==
    /\ material_ex = <<>>
    /\ material_keep = <<>>
    /\ ignore_words = <<>>
    /\ engines = DEFAULT_ENGINES
    /\ engine_var = DEFAULT_ENGINE
    /\ lb = [i \in 1..Len(DEFAULT_ENGINES) |-> DEFAULT_ENGINES[i].name]
    /\ vops = 0

\* the viewer on its own, the workshop not opened and no file written yet
ViewerAlone == WorkshopInit(Disk(Missing, Missing, Missing)) /\ ViewerInit

MaterialsRunning == vops < MaxMaterialsOps

EngineRunning == vops < MaxEngineOps

AddToEx ==
    /\ MaterialsRunning
    /\ \E sel \in RowSelections : CommitViewer(add_to_ex(Viewer, sel))

AddToKeep ==
    /\ MaterialsRunning
    /\ \E sel \in RowSelections : CommitViewer(add_to_keep(Viewer, sel))

DeleteSelected ==
    /\ MaterialsRunning
    /\ \E list \in {"ex", "keep"} :
          \E idx \in 0..Len(IF list = "ex" THEN material_ex ELSE material_keep) :
              CommitViewer(delete_selected(Viewer, list, idx))

ClearMaterials ==
    /\ MaterialsRunning
    /\ \E yes \in BOOLEAN : CommitViewer(clear_materials(Viewer, yes))

AddSelectedWordToIgnore ==
    /\ MaterialsRunning
    /\ \E sel \in PickTexts : CommitViewer(add_selected_word_to_ignore(Viewer, sel))

AddFullTextToIgnore ==
    /\ MaterialsRunning
    /\ \E text \in PickTexts : CommitViewer(add_full_text_to_ignore(Viewer, text))

SaveIgnoreEditor ==
    /\ MaterialsRunning
    /\ \E raw \in EditorTexts : CommitViewer(on_save(Viewer, raw))

MaterialsNext ==
    \/ AddToEx
    \/ AddToKeep
    \/ DeleteSelected
    \/ ClearMaterials
    \/ AddSelectedWordToIgnore
    \/ AddFullTextToIgnore
    \/ SaveIgnoreEditor

MaterialsSpec == ViewerAlone /\ [][MaterialsNext]_vars

AddEngine ==
    /\ EngineRunning
    /\ \E n \in NameAnswers : \E t \in TplAnswers :
          CommitViewer(add_engine(Viewer, n, t))

EditEngine ==
    /\ EngineRunning
    /\ \E sel \in 0..Len(lb) : \E n \in NameAnswers : \E t \in TplAnswers :
          CommitViewer(edit_engine(Viewer, sel, n, t))

DeleteEngine ==
    /\ EngineRunning
    /\ \E sel \in 0..Len(lb) : \E yes \in BOOLEAN :
          CommitViewer(delete_engine(Viewer, sel, yes))

ResetDefaults ==
    /\ EngineRunning
    /\ \E yes \in BOOLEAN : CommitViewer(reset_defaults(Viewer, yes))

EnginesNext ==
    \/ AddEngine
    \/ EditEngine
    \/ DeleteEngine
    \/ ResetDefaults

EnginesSpec == ViewerAlone /\ [][EnginesNext]_vars


----------------------------------------------------------------------------
(* Properties.  A property of a handler is stated for every state the        *)
(* workshop can be in with its window open, and every input the handler can  *)
(* take there: it relates the state to the one the handler leaves.  The      *)
(* vocabulary below is written from the documented behaviour and does not    *)
(* use the operators of the handlers it judges.                              *)

Open == phase = "running"

\* the state a handler left, as the next handler finds it
Settled(s) == [s EXCEPT !.exc = FALSE]

Hits(rs) == [i \in 1..Len(rs) |-> rs[i].hit]

Scopes(rs) == [i \in 1..Len(rs) |-> rs[i].scope]

\* rule r is enabled, its pattern compiles, and it matches title t
Matches(r, t) ==
    /\ r.enabled
    /\ r.pattern # <<>>
    /\ CompileError(r.pattern) = ""
    /\ Search(Matcher(r.pattern, r.flags), t)

\* r is enabled and its pattern is rejected by the regex engine
FailsToCompile(r) == r.enabled /\ r.pattern # <<>> /\ CompileError(r.pattern) # ""

\* the position of the earliest rule that matches t, 0 when no rule does
EarliestMatching(rs, t) ==
    IF \E i \in 1..Len(rs) : Matches(rs[i], t)
    THEN CHOOSE i \in 1..Len(rs) :
             Matches(rs[i], t) /\ \A j \in 1..(i - 1) : ~Matches(rs[j], t)
    ELSE 0

\* how many of the titles are attributed to the rule at position i
Attributed(rs, titles, i) ==
    Cardinality({k \in 1..Len(titles) : EarliestMatching(rs, titles[k]) = i})

\* the documented visibility of rule r in scope context sc with active genre g
ShownIn(r, sc, g) ==
    CASE sc = SCOPE_TMP -> r.scope = SCOPE_TMP
      [] sc = SCOPE_GLOBAL -> r.scope = SCOPE_GLOBAL
      [] sc = SCOPE_GENRE -> r.scope = SCOPE_GENRE /\ r.apply_genre = g

\* every field of a rule but scope and apply_genre
SameButScope(r1, r2) == [r1 EXCEPT !.scope = "", !.apply_genre = ""]
                        = [r2 EXCEPT !.scope = "", !.apply_genre = ""]

\* rs2 is rs1 with the rule at position i given scope sc and genre g, and
\* nothing else changed
OnlyScopeSet(rs1, rs2, i, sc, g) ==
    /\ Len(rs2) = Len(rs1)
    /\ rs2[i].scope = sc
    /\ rs2[i].apply_genre = g
    /\ SameButScope(rs1[i], rs2[i])
    /\ \A j \in 1..Len(rs1) : j # i => rs2[j] = rs1[j]

\* the rules rs1 are all kept in rs2, at their positions, and none has become
\* a TMP rule
NoneMadeTmp(rs1, rs2) ==
    /\ Len(rs2) >= Len(rs1)
    /\ \A i \in 1..Len(rs1) : rs2[i].scope = SCOPE_TMP => rs1[i].scope = SCOPE_TMP

\* the rows a click of a promote button can act on
Promotable == {sel \in Selections : sel # NoSel /\ ~BadIndex(Self, sel)}

\* C1: hit evaluation is first-match-wins: when update_rule_hits runs to its
\* end, each title (of the first HIT_CAP) is counted for the earliest enabled
\* rule whose pattern compiles and matches it, and for no other rule; the
\* counters are a function of the rules, their order and the titles.
C1_FirstMatchWins ==
    Open =>
        LET s1 == update_rule_hits(Self) IN
        ~s1.exc =>
            \A i \in 1..Len(s1.rules) :
                s1.rules[i].hit
                    = Attributed(s1.rules, Take(s1.sample_titles, HIT_CAP), i)

\* C2: the hit counters of the rules never add up to more than the number of
\* sample titles evaluated: a title is counted for at most one rule.
C2_HitSumBounded ==
    SumSeq(Hits(rules)) <= Len(Take(sample_titles, HIT_CAP))

\* C2 witness: hits have been counted over titles of which one is found by the
\* matchers of two enabled rules, and it has been counted once
C2_Witness ==
    /\ Len(compiled) = Len(rules)
    /\ SumSeq(Hits(rules)) > 0
    /\ \E k \in 1..Len(sample_titles) : \E i, j \in 1..Len(rules) :
          /\ i < j
          /\ rules[i].enabled /\ compiled[i] # None /\ Search(compiled[i], sample_titles[k])
          /\ rules[j].enabled /\ compiled[j] # None /\ Search(compiled[j], sample_titles[k])
          /\ rules[i].hit > 0

\* C3: an enabled rule whose pattern fails to compile has no matcher and
\* never has a hit.
C3_CompileFailureIsolated ==
    \A i \in 1..Len(rules) :
        FailsToCompile(rules[i])
        => /\ rules[i].hit = 0
           /\ i <= Len(compiled) => compiled[i] = None

\* C4: when the scope context is chosen, the rows of the rule list are exactly
\* the rules the context shows: TMP rules in TMP, GLOBAL rules in GLOBAL, and in
\* GENRE the GENRE rules whose apply_genre is the active genre.
C4_ScopeVisibility ==
    Open =>
        \A label \in Labels :
            LET s1 == on_scope_changed(Self, label) IN
            /\ Len(s1.tree) = Cardinality(Range(s1.tree))
            /\ Range(s1.tree) = {i \in 1..Len(s1.rules) :
                                    ShownIn(s1.rules[i], scope_key_from_label(label),
                                            s1.genre)}

\* C4 witness: the GENRE context with active genre "Novels" shows the rule of
\* "Novels" and not the rule of "Comics"
C4_Witness ==
    /\ scope_var = LABEL_GENRE
    /\ genre = "Novels"
    /\ \E i, j \in 1..Len(rules) :
          /\ rules[i].scope = SCOPE_GENRE /\ rules[i].apply_genre = "Comics"
          /\ rules[j].scope = SCOPE_GENRE /\ rules[j].apply_genre = "Novels"
          /\ i \notin Range(tree)
          /\ j \in Range(tree)

\* C5: a GENRE rule has a non-empty apply_genre, and a TMP or GLOBAL rule has
\* an empty one.
C5_ScopeGenreConsistent ==
    \A i \in 1..Len(rules) :
        /\ rules[i].scope = SCOPE_GENRE => rules[i].apply_genre # ""
        /\ rules[i].scope \in {SCOPE_TMP, SCOPE_GLOBAL} => rules[i].apply_genre = ""

\* C6: no two rules of the collection have the same key.
C6_KeysUnique ==
    \A i, j \in 1..Len(rules) : i # j => rules[i].key # rules[j].key

\* C7: promoting a rule to GLOBAL sets its scope to GLOBAL and empties its
\* apply_genre; promoting it to GENRE sets its scope to GENRE and its
\* apply_genre to the active genre; either changes nothing else of the rule,
\* no other rule, and not the order.  No handler gives a rule it keeps the
\* scope TMP: the handlers that edit rules in place or add rules keep the
\* scope of every rule that was not a TMP rule, and the two that remove rules
\* only remove.
C7_Promotion ==
    Open =>
        /\ \A sel \in Promotable : \A io \in IOOutcomes :
              /\ OnlyScopeSet(rules, promote_selected_rule_to_global(Self, sel, io).rules,
                              sel, SCOPE_GLOBAL, "")
              /\ OnlyScopeSet(rules, promote_selected_rule_to_genre(Self, sel, io).rules,
                              sel, SCOPE_GENRE, genre)
              /\ promote_selected_rule_to_genre(Self, sel, io).genre = genre
        /\ \A sel \in Selections :
              /\ NoneMadeTmp(rules, toggle_selected_rule(Self, sel).rules)
              /\ \A form \in EditForms :
                    NoneMadeTmp(rules, apply_rule_edit(Self, sel, form).rules)
              /\ \A yes \in BOOLEAN :
                    LET after == Scopes(delete_selected_rule(Self, sel, yes).rules) IN
                    \/ after = Scopes(rules)
                    \/ \E k \in 1..Len(rules) : after = RemoveAt(Scopes(rules), k)
        /\ \A label \in Labels : NoneMadeTmp(rules, on_scope_changed(Self, label).rules)
        /\ NoneMadeTmp(rules, refresh_all(Self).rules)
        /\ NoneMadeTmp(rules, add_heuristics(Self).rules)
        /\ \A io \in IOOutcomes :
              /\ NoneMadeTmp(rules, add_new_rule(Self, io).rules)
              /\ \A p \in ExportPicks :
                    NoneMadeTmp(rules, export_rules_pack(Self, p, "t1", io).rules)
              /\ \A yes \in BOOLEAN :
                    LET after == clear_tmp_scope(Self, yes, io).rules IN
                    \/ Scopes(after) = Scopes(rules)
                    \/ \A i \in 1..Len(after) : after[i].scope # SCOPE_TMP

\* C7 witness: the first rule of the saved workspace, a TMP rule, has been
\* promoted to GLOBAL and saved; the second rule is still a TMP rule
C7_Witness ==
    /\ Len(rules) = 2
    /\ rules[1].key = "custom_0" /\ rules[1].pattern = <<"a">>
    /\ rules[1].scope = SCOPE_GLOBAL /\ rules[1].apply_genre = ""
    /\ rules[2].key = "custom_1" /\ rules[2].scope = SCOPE_TMP
    /\ disk[workspace_path] = JDict(workspace)
    /\ workspace.rules = rules_to_json(rules)

\* C8: promotion is idempotent: a rule that is already GLOBAL (GENRE of the
\* active genre) is left as it is by a promotion to GLOBAL (GENRE), with the
\* rest of the collection; and promoting once more after a promotion gives the
\* rules the first promotion gave.
C8_PromotionIdempotent ==
    Open =>
        \A sel \in Promotable : \A io \in IOOutcomes :
            LET once_global == promote_selected_rule_to_global(Self, sel, io)
                once_genre == promote_selected_rule_to_genre(Self, sel, io)
            IN
            /\ (rules[sel].scope = SCOPE_GLOBAL /\ rules[sel].apply_genre = "")
               => once_global.rules = rules
            /\ (rules[sel].scope = SCOPE_GENRE /\ rules[sel].apply_genre = genre)
               => once_genre.rules = rules
            /\ \A io2 \in IOOutcomes :
                  /\ promote_selected_rule_to_global(Settled(once_global), sel, io2).rules
                         = once_global.rules
                  /\ promote_selected_rule_to_genre(Settled(once_genre), sel, io2).rules
                         = once_genre.rules

\* C8 witness: in the GLOBAL context a row shows a GLOBAL rule of the rule
\* pack, and the workspace has been saved with the rules as they are: what a
\* promotion of that rule to GLOBAL leaves
C8_Witness ==
    /\ scope_var = LABEL_GLOBAL
    /\ Len(rules) = 2
    /\ \E sel \in Range(tree) :
          /\ sel <= Len(rules)
          /\ rules[sel].key = "p_a"
          /\ rules[sel].scope = SCOPE_GLOBAL /\ rules[sel].apply_genre = ""
    /\ disk[workspace_path] = JDict(workspace)
    /\ workspace.rules = rules_to_json(rules)

\* C9: a confirmed clear_tmp_scope leaves exactly the rules that were not TMP
\* rules, in the order they had; a declined one changes nothing.
C9_ClearTmpRules ==
    Open =>
        \A io \in IOOutcomes :
            /\ clear_tmp_scope(Self, TRUE, io).rules
                   = SelectSeq(rules, LAMBDA r : r.scope # SCOPE_TMP)
            /\ clear_tmp_scope(Self, FALSE, io) = Self

\* C9 witness: of the saved workspace's TMP, GLOBAL and GENRE rule, the GLOBAL
\* and the GENRE rule are left, and the workspace is saved so
C9_Witness ==
    /\ Len(rules) = 2
    /\ rules[1].key = "custom_1" /\ rules[1].scope = SCOPE_GLOBAL
    /\ rules[2].key = "custom_2" /\ rules[2].scope = SCOPE_GENRE
    /\ ignore_scoped # NoAttr
    /\ ignore_scoped[SCOPE_TMP] = <<>>
    /\ disk[workspace_path] = JDict(workspace)
    /\ Len(workspace.rules) = 2

\* C10: a confirmed clear_tmp_scope empties the TMP bucket of ignore words and
\* leaves the GLOBAL bucket and the per-genre buckets as they were; it does so
\* in the step that removes the TMP rules, and a workspace it saves has both
\* done.  Before any workspace is loaded there are no buckets, and none appear.
C10_ClearTmpIgnoreWords ==
    Open =>
        \A io \in IOOutcomes :
            LET s1 == clear_tmp_scope(Self, TRUE, io)
                saved == s1.disk[s1.workspace_path]
            IN
            /\ \A i \in 1..Len(s1.rules) : s1.rules[i].scope # SCOPE_TMP
            /\ ignore_scoped = NoAttr => s1.ignore_scoped = NoAttr
            /\ ignore_scoped # NoAttr
               => /\ DOMAIN s1.ignore_scoped = DOMAIN ignore_scoped
                  /\ s1.ignore_scoped[SCOPE_TMP] = <<>>
                  /\ \A b \in DOMAIN ignore_scoped \ {SCOPE_TMP} :
                        s1.ignore_scoped[b] = ignore_scoped[b]
            /\ (s1.disk # disk /\ saved.kind = "dict")
               => /\ saved.obj.ignore_scoped[SCOPE_TMP] = <<>>
                  /\ \A i \in 1..Len(saved.obj.rules) :
                        saved.obj.rules[i].obj.scope # SCOPE_TMP

\* C10 witness: the TMP bucket of the workspace, which held a word, is empty,
\* the GLOBAL and the per-genre bucket hold their words, no TMP rule is left,
\* and the workspace is saved so
C10_Witness ==
    /\ ignore_scoped # NoAttr
    /\ ignore_scoped[SCOPE_TMP] = <<>>
    /\ ignore_scoped[SCOPE_GLOBAL] = <<"gw">>
    /\ ignore_scoped[SCOPE_GENRE] = [g \in {"Comics"} |-> <<"cw">>]
    /\ rules # <<>>
    /\ \A i \in 1..Len(rules) : rules[i].scope # SCOPE_TMP
    /\ disk[workspace_path] = JDict(workspace)
    /\ workspace.ignore_scoped = ignore_scoped

\* the genre tags of a rule: none for None and for the empty list, which no
\* code tells apart
GenreTags(r) == IF r.genres = None THEN <<>> ELSE r.genres.items

\* what a workspace document is to keep of a rule
RuleContent(r) ==
    [key |-> r.key, name |-> r.name, pattern |-> r.pattern, why |-> r.why,
     enabled |-> r.enabled, flags |-> r.flags, source |-> r.source,
     genres |-> GenreTags(r), scope |-> r.scope, apply_genre |-> r.apply_genre]

\* the workspace held by the object s
WorkspaceOf(s) ==
    [genre |-> s.genre, exclude_examples |-> s.exclude_examples,
     keep_examples |-> s.keep_examples, sample_titles |-> s.sample_titles,
     ignore_scoped |-> s.ignore_scoped,
     rules |-> [i \in 1..Len(s.rules) |-> RuleContent(s.rules[i])]]

\* C11: round trip: a workspace saved by save_workspace and loaded back by
\* load_workspace is the workspace that was saved: genre, examples, sample
\* titles, scoped ignore words, and of every rule its key, name, pattern, why,
\* enabled, flags, source, genres, scope and apply_genre.
C11_SaveLoadRoundTrip ==
    (Open /\ ignore_scoped # NoAttr) =>
        LET saved == save_workspace(Self, "ok")
            loaded == load_workspace(Settled(saved), saved.workspace_path)
        IN /\ ~saved.exc
           /\ loaded.workspace_path = workspace_path
           /\ WorkspaceOf(loaded) = WorkspaceOf(Self)

\* C11 witness: the workspace has examples, sample titles, ignore words in the
\* buckets, a rule of each scope and one with genres, and it is the one loaded
\* from the file that holds what save_workspace writes of it
C11_Witness ==
    /\ Open
    /\ exclude_examples # <<>> /\ keep_examples # <<>> /\ sample_titles # <<>>
    /\ ignore_scoped # NoAttr
    /\ ignore_scoped[SCOPE_TMP] # <<>> /\ ignore_scoped[SCOPE_GLOBAL] # <<>>
    /\ {SCOPE_TMP, SCOPE_GLOBAL, SCOPE_GENRE} \subseteq Range(Scopes(rules))
    /\ \E i \in 1..Len(rules) : GenreTags(rules[i]) # <<>>
    /\ disk[workspace_path] = JDict(workspace)
    /\ save_workspace(Self, "ok").disk = disk

\* C12: load-then-save is stable: loading a workspace document that
\* save_workspace wrote and saving it again unmodified writes the same
\* document; and for any workspace document, loading and saving a second time
\* writes what the first time wrote.
C12_LoadSaveStable ==
    Open =>
        /\ ignore_scoped # NoAttr =>
              LET saved == save_workspace(Self, "ok")
                  again == save_workspace(
                               Settled(load_workspace(Settled(saved), workspace_path)),
                               "ok")
              IN ~again.exc /\ again.disk = saved.disk
        /\ \A p \in WorkspacePicks :
              disk[p].kind = "dict" =>
                  LET once == save_workspace(Settled(load_workspace(Self, p)), "ok")
                      twice == save_workspace(Settled(load_workspace(Settled(once), p)),
                                              "ok")
                  IN /\ ~once.exc /\ ~twice.exc
                     /\ twice.disk = once.disk

\* C12 witness: the workshop holds the rules of the workspace file it loaded,
\* and the file is what save_workspace writes of the workshop's state
C12_Witness ==
    /\ Open
    /\ workspace_path = WORKSPACE_JSON
    /\ rules # <<>>
    /\ \E i \in 1..Len(rules) : rules[i].scope = SCOPE_TMP
    /\ disk[WORKSPACE_JSON] = JDict(workspace)
    /\ save_workspace(Self, "ok").disk = disk
    /\ load_workspace(Self, WORKSPACE_JSON).rules = rules

\* C13: loading a workspace document without the scoped ignore words takes
\* its legacy ignore_words list as the GLOBAL bucket, with an empty TMP bucket
\* and no per-genre buckets; a document with the scoped ignore words has them
\* used, and its legacy list is not looked at.
C13_LegacyIgnoreWords ==
    Open =>
        \A p \in WorkspacePicks :
            disk[p].kind = "dict" =>
                LET d == disk[p].obj
                    loaded == load_workspace(Self, p).ignore_scoped
                IN IF "ignore_scoped" \in DOMAIN d
                   THEN \A b \in DOMAIN d.ignore_scoped : loaded[b] = d.ignore_scoped[b]
                   ELSE /\ DOMAIN loaded = {SCOPE_GLOBAL, SCOPE_TMP, SCOPE_GENRE}
                        /\ loaded[SCOPE_GLOBAL] = Get(d, "ignore_words", <<>>)
                        /\ loaded[SCOPE_TMP] = <<>>
                        /\ loaded[SCOPE_GENRE] = EmptyObj

\* C13 witness: the document loaded has only the legacy list, with a word in
\* it, and the workshop holds that list as its GLOBAL bucket
C13_Witness ==
    /\ Open
    /\ "ignore_scoped" \notin DOMAIN workspace
    /\ "ignore_words" \in DOMAIN workspace
    /\ workspace.ignore_words # <<>>
    /\ ignore_scoped # NoAttr
    /\ ignore_scoped[SCOPE_GLOBAL] = workspace.ignore_words
    /\ ignore_scoped[SCOPE_TMP] = <<>>
    /\ ignore_scoped[SCOPE_GENRE] = EmptyObj

\* the keys of the i-th rule object of the rule pack that an export of the
\* workshop's rules writes
ExportedKeys(i) ==
    LET out == export_rules_pack(Self, RULES_PACK_JSON, "t1", "ok").disk[RULES_PACK_JSON]
    IN DOMAIN out.obj.rules[i].obj

\* C14: an exported rule with no genre tags and the GLOBAL scope is written
\* without the keys genres, scope and apply_genre, and a rule with no compile
\* error is written without the key error.
C14_ExportOmitsDefaults ==
    Open =>
        \A i \in 1..Len(rules) :
            /\ (GenreTags(rules[i]) = <<>> /\ rules[i].scope = SCOPE_GLOBAL) =>
                   ExportedKeys(i) \cap {"genres", "scope", "apply_genre"} = {}
            /\ rules[i].error = "" => "error" \notin ExportedKeys(i)

\* C15: a save of the workspace or an export of the rule pack whose write
\* fails leaves at the target path either the document that was there or the
\* complete new one, and a failed save_workspace raises to its caller.
C15_FailedWriteKeepsDocument ==
    Open =>
        \A io \in IOOutcomes \ {"ok"} :
            /\ ignore_scoped # NoAttr =>
                   LET failed == save_workspace(Self, io)
                       done == save_workspace(Self, "ok")
                   IN /\ failed.exc
                      /\ failed.disk[workspace_path]
                             \in {disk[workspace_path], done.disk[workspace_path]}
            /\ \A path \in ExportPicks \ {""} :
                   LET failed == export_rules_pack(Self, path, "t1", io)
                       done == export_rules_pack(Self, path, "t1", "ok")
                   IN /\ failed.rules_pack_path = rules_pack_path
                      /\ failed.disk[path] \in {disk[path], done.disk[path]}

\* the hit held for every rule of rs is its first-match-wins count over titles
HitsCurrent(rs, titles) ==
    \A i \in 1..Len(rs) : rs[i].hit = Attributed(rs, Take(titles, HIT_CAP), i)

\* the rule objects of the document at path, none for what is not a document
StoredRules(path) ==
    IF disk[path].kind = "list" THEN Range(disk[path].items)
    ELSE IF disk[path].kind = "dict" /\ "rules" \in DOMAIN disk[path].obj
         THEN Range(disk[path].obj.rules)
         ELSE {}

\* C16: whatever operations have added, deleted, edited, toggled, cleared or
\* reloaded rules or titles, the hit held for each rule is the first-match-wins
\* count of the current rules over the current sample titles; and no rule
\* object of a stored workspace or rule pack carries a hit count.
C16_HitsRecomputed ==
    /\ Open => HitsCurrent(rules, sample_titles)
    /\ (Open /\ ignore_scoped # NoAttr) =>
           LET cleared == clear_tmp_scope(Self, TRUE, "ok")
           IN HitsCurrent(cleared.rules, cleared.sample_titles)
    /\ \A path \in DOMAIN disk : \A it \in StoredRules(path) :
           it.kind = "dict" => "hit" \notin DOMAIN it.obj

\* rule r is disabled or has no pattern text
Unused(r) == (~r.enabled) \/ r.pattern = <<>>

\* in state s every disabled or pattern-less rule has no matcher, no error and
\* no hit
UnusedRulesIdle(s) ==
    /\ Len(s.compiled) = Len(s.rules)
    /\ \A i \in 1..Len(s.rules) :
           Unused(s.rules[i]) => /\ s.compiled[i] = None
                                 /\ s.rules[i].error = ""
                                 /\ s.rules[i].hit = 0

\* C17: a rule that is disabled or has no pattern text is not compiled: once
\* the rules are recompiled and the hits counted, and after every toggle of a
\* rule (which recompiles), such a rule has no matcher, an empty error, even
\* when it held one before, and no hit.
C17_UnusedRuleNotCompiled ==
    Open =>
        /\ LET recounted == update_rule_hits(recompile_all(Self))
           IN ~recounted.exc /\ UnusedRulesIdle(recounted)
        /\ \A sel \in Selections \ {NoSel} :
               LET toggled == toggle_selected_rule(Self, sel)
               IN ~toggled.exc => UnusedRulesIdle(toggled)

\* C17 witness: there are sample titles to count, and a row can be toggled
\* whose rule is enabled and holds a compile error; the toggle disables it
\* and leaves it without error
C17_Witness ==
    /\ Open
    /\ sample_titles # <<>>
    /\ \E sel \in Selections \ {NoSel} :
          /\ ~BadIndex(Self, sel)
          /\ rules[sel].enabled
          /\ rules[sel].error # ""
          /\ LET toggled == toggle_selected_rule(Self, sel)
             IN ~toggled.rules[sel].enabled /\ toggled.rules[sel].error = ""

\* rule r is enabled and its pattern is accepted by the regex engine
Compiles(r) == r.enabled /\ r.pattern # <<>> /\ CompileError(r.pattern) = ""

\* C18: in every state of the open workshop, the state right after a
\* workspace was loaded included, an enabled rule whose pattern compiles holds
\* no error.
C18_CompilableRuleHasNoError ==
    Open => \A i \in 1..Len(rules) : Compiles(rules[i]) => rules[i].error = ""

\* C19: every rule that holds a compile error is listed in the preview with
\* its name and its error text, whatever the sample titles, none included.
C19_ErrorsListedInPreview ==
    Open =>
        \A i \in 1..Len(rules) :
            rules[i].error # "" =>
                \E k \in 1..Len(preview) :
                    /\ preview[k].kind = "error"
                    /\ preview[k].rule = rules[i].name
                    /\ preview[k].error = rules[i].error

\* the rule records of the rule pack at path, in either shape
PackRecords(path) ==
    IF disk[path].kind = "list" THEN disk[path].items
    ELSE IF disk[path].kind = "dict" THEN Get(disk[path].obj, "rules", <<>>)
    ELSE <<>>

\* the objects among the records
ObjectEntries(records) == SelectSeq(records, LAMBDA it : it.kind = "dict")

\* C20: the records of a rule pack give the same rules in the same order
\* whether the pack is the bare list of them or a document holding them under
\* rules: one rule for each record that is an object, in the records' order,
\* and none for a record that is not an object.
C20_PackShapesEquivalent ==
    Open =>
        \A path \in PackPicks :
            LET records == PackRecords(path)
                entries == ObjectEntries(records)
                bare == load_rules_pack(
                            [Self EXCEPT !.disk[path] = JList(records)], path)
                wrapped == load_rules_pack(
                               [Self EXCEPT !.disk[path] = JDict([rules |-> records])],
                               path)
            IN /\ bare.rules = wrapped.rules
               /\ bare.compiled = wrapped.compiled
               /\ bare.exc = wrapped.exc
               /\ Len(bare.rules) = Len(entries)
               /\ \A k \in 1..Len(entries) :
                      /\ "key" \in DOMAIN entries[k].obj =>
                             bare.rules[k].key = entries[k].obj.key
                      /\ bare.rules[k].pattern = Get(entries[k].obj, "pattern", <<>>)

\* C20 witness: the rules held were loaded from a pack that is a bare list
\* with an entry that is not an object between two rule objects
C20_Witness ==
    /\ Open
    /\ rules_pack_path = RULES_PACK_JSON
    /\ disk[RULES_PACK_JSON].kind = "list"
    /\ Len(PackRecords(RULES_PACK_JSON)) = 3
    /\ PackRecords(RULES_PACK_JSON)[2].kind # "dict"
    /\ Len(rules) = 2
    /\ rules[1].key = PackRecords(RULES_PACK_JSON)[1].obj.key
    /\ rules[2].key = PackRecords(RULES_PACK_JSON)[3].obj.key
    /\ Len(compiled) = 2

\* the keys a serialized rule may have
RULE_KEYS == {"key", "name", "pattern", "why", "enabled", "flags", "source",
              "genres", "scope", "apply_genre", "error"}

\* the workshop with its examples, sample titles and ignore words emptied
WithoutMaterials ==
    [Self EXCEPT !.exclude_examples = <<>>, !.keep_examples = <<>>,
                 !.sample_titles = <<>>,
                 !.ignore_scoped = NoAttr, !.workspace = EmptyObj]

\* C21: the rule pack an export writes has a meta record (name, generated_at)
\* and the serialized rules and nothing else: no examples, no sample titles,
\* no ignore words; it is the same document whatever the workspace holds of
\* these.
C21_PackHoldsOnlyRules ==
    Open =>
        \A path \in ExportPicks \ {""} :
            LET out == export_rules_pack(Self, path, "t1", "ok").disk[path]
                bare == export_rules_pack(WithoutMaterials, path, "t1", "ok").disk[path]
            IN /\ out.kind = "dict"
               /\ DOMAIN out.obj = {"meta", "rules"}
               /\ DOMAIN out.obj.meta = {"name", "generated_at"}
               /\ Len(out.obj.rules) = Len(rules)
               /\ \A i \in 1..Len(rules) :
                      /\ out.obj.rules[i].kind = "dict"
                      /\ DOMAIN out.obj.rules[i].obj \subseteq RULE_KEYS
               /\ out = bare

\* C21 witness: the workshop holds examples, sample titles and ignore words,
\* and the pack on disk is the one it exported from its rules
C21_Witness ==
    /\ Open
    /\ exclude_examples # <<>> /\ keep_examples # <<>> /\ sample_titles # <<>>
    /\ ignore_scoped # NoAttr
    /\ ignore_scoped[SCOPE_GLOBAL] # <<>>
    /\ rules # <<>>
    /\ disk[rules_pack_path].kind = "dict"
    /\ "meta" \in DOMAIN disk[rules_pack_path].obj
    /\ disk[rules_pack_path].obj.meta.generated_at = "t1"
    /\ Len(disk[rules_pack_path].obj.rules) = Len(rules)

\* the edit forms whose flags text is not an integer
BadFlagsForms == {form \in EditForms : form.flags \notin {"", "0", "2"}}

\* the entries of a comma-separated genres text that are not blank
Tags(genres) == SelectSeq(genres, LAMBDA g : g \notin {"", " "})

\* C22: an edit whose flags text is not an integer sets the flags of the
\* edited rule to 0 and still applies the name, the rationale, the genre tags
\* and the pattern of the same edit; no other rule is changed.
C22_BadFlagsOnlyResetsFlags ==
    Open =>
        \A sel \in Selections \ {NoSel} : \A form \in BadFlagsForms :
            ~BadIndex(Self, sel) =>
                LET edited == apply_rule_edit(Self, sel, form)
                    r == edited.rules[sel]
                IN /\ ~edited.exc
                   /\ Len(edited.rules) = Len(rules)
                   /\ r.flags = 0
                   /\ r.name = IF form.name = "" THEN rules[sel].name ELSE form.name
                   /\ r.why = form.why
                   /\ GenreTags(r) = Tags(form.genres)
                   /\ r.pattern = form.pattern
                   /\ RuleContent(r)
                        = [RuleContent(rules[sel]) EXCEPT
                              !.flags = r.flags, !.name = r.name, !.why = r.why,
                              !.genres = GenreTags(r), !.pattern = r.pattern]
                   /\ \A j \in 1..Len(rules) :
                          j # sel => RuleContent(edited.rules[j]) = RuleContent(rules[j])

\* C22 witness: a rule with flags set, another name, no rationale and no
\* tags can be selected beside a second rule, and an edit with a flags text
\* that is not an integer has its other fields applied
C22_Witness ==
    /\ Open
    /\ Len(rules) > 1
    /\ \E sel \in Selections \ {NoSel} : \E form \in BadFlagsForms :
          /\ ~BadIndex(Self, sel)
          /\ rules[sel].flags # 0
          /\ form.name # "" /\ rules[sel].name # form.name
          /\ rules[sel].why # form.why
          /\ GenreTags(rules[sel]) # Tags(form.genres)
          /\ rules[sel].pattern # form.pattern
          /\ apply_rule_edit(Self, sel, form).rules[sel].name = form.name

\* what a path may hold that is not a workspace object: nothing, text that
\* is not JSON, a JSON list, a JSON number
FailingDocs == {Missing, Garbage, JList(PackRules), JOther}

\* C23: loading a workspace from a path that holds no file, no JSON or JSON
\* that is not an object returns without raising and leaves the workspace
\* path, the genre, the examples, the sample titles, the ignore words, the
\* rules and everything else the workshop holds as they were.
C23_FailedLoadChangesNothing ==
    Open =>
        \A path \in WorkspacePicks : \A doc \in FailingDocs \cup {disk[path]} :
            doc.kind # "dict" =>
                LET before == [Self EXCEPT !.disk[path] = doc]
                    after == load_workspace(before, path)
                IN /\ ~after.exc
                   /\ after.workspace_path = workspace_path
                   /\ after.workspace = workspace
                   /\ after.genre = genre
                   /\ after.exclude_examples = exclude_examples
                   /\ after.keep_examples = keep_examples
                   /\ after.sample_titles = sample_titles
                   /\ after.ignore_scoped = ignore_scoped
                   /\ after.rules = rules
                   /\ after = before

\* C23 witness: the workshop holds a workspace loaded from another path, with
\* examples, titles and ignore words, and can pick a path that holds no JSON
C23_Witness ==
    /\ Open
    /\ workspace_path = OTHER_JSON
    /\ exclude_examples # <<>> /\ sample_titles # <<>>
    /\ ignore_scoped # NoAttr
    /\ ignore_scoped[SCOPE_TMP] # <<>>
    /\ disk[WORKSPACE_JSON].kind = "garbage"
    /\ WORKSPACE_JSON \in WorkspacePicks

\* a word of the workshop's lists that is empty or only whitespace
BlankWord(w) == w \in {"", " "}

\* a text of the viewer that is empty or only whitespace
BlankText(x) == \A i \in 1..Len(x) : x[i] = " "

\* C24: no ignore-word list holds an entry that is empty or only whitespace:
\* not the GLOBAL list, not the TMP list, not the list of any genre, not the
\* viewer's flat list.
C24_NoBlankIgnoreWords ==
    /\ ignore_scoped # NoAttr =>
           /\ \A b \in {SCOPE_GLOBAL, SCOPE_TMP} :
                  b \in DOMAIN ignore_scoped =>
                      \A i \in 1..Len(ignore_scoped[b]) : ~BlankWord(ignore_scoped[b][i])
           /\ SCOPE_GENRE \in DOMAIN ignore_scoped =>
                  \A g \in DOMAIN ignore_scoped[SCOPE_GENRE] :
                      \A i \in 1..Len(ignore_scoped[SCOPE_GENRE][g]) :
                          ~BlankWord(ignore_scoped[SCOPE_GENRE][g][i])
    /\ \A i \in 1..Len(ignore_words) : ~BlankText(ignore_words[i])

----------------------------------------------------------------------------
(* C25 *)

\* the dataclass fields of the rules, in list order: the rules without the
\* _hit attribute that update_rule_hits attaches
Fields(rs) == [i \in 1..Len(rs) |-> [rs[i] EXCEPT !.hit = 0]]

\* C25: hit evaluation and the displays leave the rule list as it is:
\* update_rule_hits changes nothing of the rules but their hit counters,
\* refresh_rule_tree and refresh_preview change nothing of them at all, and so
\* does refresh_all; the rows of the tree are distinct indices into the list
C25_DisplayKeepsRuleOrder ==
    Open =>
        /\ Fields(update_rule_hits(Self).rules) = Fields(rules)
        /\ refresh_rule_tree(Self).rules = rules
        /\ refresh_preview(Self).rules = rules
        /\ Fields(refresh_all(Self).rules) = Fields(rules)
        /\ LET rows == refresh_rule_tree(Settled(update_rule_hits(Self))).tree IN
               /\ \A k \in 1..Len(rows) : rows[k] \in 1..Len(rules)
               /\ \A k, l \in 1..Len(rows) : rows[k] = rows[l] => k = l

\* the tree shows a later rule above an earlier one
C25_Witness ==
    /\ Open
    /\ \E k \in 1..(Len(tree) - 1) : tree[k] > tree[k + 1]
    /\ refresh_rule_tree(Self).tree = tree

----------------------------------------------------------------------------
(* C26 *)

\* the titles the preview shows: the first 200 of the first 400
Shown(titles) == Take(Take(titles, PREVIEW_POOL), PREVIEW_LINES)

\* the name of the earliest rule that matches t, nothing when no rule does
Annotation(rs, t) ==
    LET m == EarliestMatching(rs, t) IN IF m = 0 THEN "" ELSE rs[m].name

TitleLines(p) == SelectSeq(p, LAMBDA l : l.kind = "title")

\* C26: with sample titles present the preview has one line per shown title,
\* in order, annotated with the name of the first enabled, compilable rule of
\* the list that matches the title, or with nothing; and the rules named on
\* the lines are those that hold the hits of hit evaluation
C26_PreviewAttribution ==
    Open /\ sample_titles # <<>> =>
        LET p == refresh_preview(Self)
            h == update_rule_hits(Self)
            shown == Shown(sample_titles)
            lines == TitleLines(p.preview)
        IN /\ ~p.exc
           /\ lines = [k \in 1..Len(shown) |->
                          PreviewLine(shown[k], Annotation(rules, shown[k]))]
           /\ ~h.exc
           /\ \A i \in 1..Len(rules) :
                  h.rules[i].hit > 0 =>
                      \E k \in 1..Len(lines) : lines[k].rule = rules[i].name
           /\ SumSeq(Hits(h.rules))
                  = Cardinality({k \in 1..Len(lines) : lines[k].rule # ""})

----------------------------------------------------------------------------
(* C27 *)

\* the matcher of rule r as the regex engine gives it, none for a rule that
\* is disabled, empty or rejected
MatcherOf(r) ==
    IF r.enabled /\ r.pattern # <<>> /\ CompileError(r.pattern) = ""
    THEN Matcher(r.pattern, r.flags)
    ELSE None

\* the matcher list is in step with the rule list
InStep(rs, comp) ==
    /\ Len(comp) = Len(rs)
    /\ \A i \in 1..Len(rs) : comp[i] = MatcherOf(rs[i])

\* C27: in every state in which hit evaluation or the preview can run (the
\* workshop is open: the "recompute all" menu runs both), the compiled list
\* is as long as the rule list and entry i is the matcher of rule i's current
\* pattern and flags, or none
C27_CompiledInStep == Open => InStep(rules, compiled)

----------------------------------------------------------------------------
(* C28 *)

Contents(rs) == [i \in 1..Len(rs) |-> RuleContent(rs[i])]

\* the workshop saved and closed in state s, and started again
Restarted(s) == open_workshop_window(Fresh(Settled(save_workspace(s, "ok"))))

\* C28: scope assignments survive a restart: when rules hold TMP or GENRE scope
\* and the workspace is saved, the workshop started again on the same files
\* (load_workspace, then the silent load_rules_pack) has the same rules with the
\* same scope and apply_genre, whether or not a rule pack can be read
C28_ScopesSurviveRestart ==
    (/\ Open
     /\ ignore_scoped # NoAttr
     /\ workspace_path = WORKSPACE_JSON
     /\ \E i \in 1..Len(rules) : rules[i].scope \in {SCOPE_TMP, SCOPE_GENRE}) =>
        /\ Restarted(Self).phase = "running"
        /\ Contents(Restarted(Self).rules) = Contents(rules)

----------------------------------------------------------------------------
(* C29 *)

NoDuplicates(xs) == \A i, j \in 1..Len(xs) : xs[i] = xs[j] => i = j

\* the titles of the rows sel of the left tree
TitlesOf(sel) == {ROWS[sel[i]] : i \in 1..Len(sel)}

\* C29: whatever add_to_ex, add_to_keep, delete_selected and clear_materials
\* have done since the lists were empty, no title is in both material lists
\* and neither list holds a title twice; and adding the selected titles to one
\* list puts them there and takes them out of the other
C29_MaterialsDisjoint ==
    /\ Range(material_ex) \cap Range(material_keep) = {}
    /\ NoDuplicates(material_ex)
    /\ NoDuplicates(material_keep)
    /\ \A sel \in RowSelections \ {<<>>} :
           /\ TitlesOf(sel) \subseteq Range(add_to_ex(Viewer, sel).material_ex)
           /\ TitlesOf(sel) \cap Range(add_to_ex(Viewer, sel).material_keep) = {}
           /\ TitlesOf(sel) \subseteq Range(add_to_keep(Viewer, sel).material_keep)
           /\ TitlesOf(sel) \cap Range(add_to_keep(Viewer, sel).material_ex) = {}

\* both lists hold a title, and the title of the keep list, shown on two
\* rows, moves to the other list when both rows are selected and added
C29_Witness ==
    /\ material_ex = <<"t2">>
    /\ material_keep = <<"t1">>
    /\ add_to_ex(Viewer, <<1, 3>>).material_ex = <<"t2", "t1">>
    /\ add_to_ex(Viewer, <<1, 3>>).material_keep = <<>>

----------------------------------------------------------------------------
(* C30 *)

\* the occurrences of "{}" in a template
Placeholders(tpl) ==
    Cardinality({i \in 1..(Len(tpl) - 1) : tpl[i] = "{" /\ tpl[i + 1] = "}"})

\* C30: whatever add, edit (renaming included), delete and reset-to-defaults
\* have done in the engine editor, the engine table is not empty, the selected
\* default engine is the name of an entry of the table, every template holds
\* exactly one "{}", and with one engine left delete_engine changes nothing
C30_EngineTableSound ==
    /\ engines # <<>>
    /\ \E i \in 1..Len(engines) : engines[i].name = engine_var
    /\ \A i \in 1..Len(engines) : Placeholders(engines[i].tpl) = 1
    /\ Len(engines) = 1 =>
           \A sel \in 0..Len(lb) : \A yes \in BOOLEAN :
               delete_engine(Viewer, sel, yes) = Viewer

=============================================================================
